---- MODULE Spec2Model ----
(***************************************************************************)
(* Structural extraction and class-diagram synthesis of mermaid-chart-mcp. *)
(*                                                                         *)
(* TypeScriptAnalyzer walks a syntax tree handed over by the external      *)
(* parser and produces entities and relationships; ClassDiagramGenerator   *)
(* encodes them as Mermaid classDiagram text.                              *)
(*                                                                         *)
(* Representation.  A text is a sequence of one-character strings, so that *)
(* per-character operations (sanitizeClassName) are computed.  A syntax    *)
(* tree is a sequence of nodes in pre-order; node i names its parent       *)
(* (0 is the root "program" node) and the field of the parent it fills.    *)
(* Leaf children whose only use is their text or their kind tag are kept   *)
(* as attributes of their parent: name/ext/typ/ret/source are the texts of *)
(* the leaf children in the fields name (or pattern), extends, type,       *)
(* return_type and source; toks is the sequence of kind tags of the direct *)
(* keyword-token children; impl is the pre-order list of the leaves below  *)
(* the child in field implements.                                          *)
(***************************************************************************)
EXTENDS Integers, Sequences, FiniteSets, TLC

\* ------------------------------------------------------------------ bounds
MaxNodes == 3
MaxElapsed == 1
MaxJsdomCalls == 3
MaxConnections == 2
MaxSignals == 2

\* ------------------------------------------------------------ text helpers
NoNode == [present |-> FALSE, text |-> <<>>]
Leaf(txt) == [present |-> TRUE, text |-> txt]

Includes(seq, x) == \E i \in 1..Len(seq) : seq[i] = x

RECURSIVE MapSeq(_, _)
MapSeq(Op(_), seq) ==
  IF seq = <<>> THEN <<>> ELSE <<Op(Head(seq))>> \o MapSeq(Op, Tail(seq))

RECURSIVE FlatMap(_, _)
FlatMap(Op(_), seq) ==
  IF seq = <<>> THEN <<>> ELSE Op(Head(seq)) \o FlatMap(Op, Tail(seq))

\* literal texts used by the code
T_Unknown == <<"U","n","k","n","o","w","n">>
T_any == <<"a","n","y">>
T_void == <<"v","o","i","d">>
T_string == <<"s","t","r","i","n","g">>
T_number == <<"n","u","m","b","e","r">>
T_stringOrNumber == <<"s","t","r","i","n","g"," ","|"," ","n","u","m","b","e","r">>
T_implements == <<"i","m","p","l","e","m","e","n","t","s">>

\* --------------------------------------------------------- syntax trees
MkNode(type, parent, field, name, toks) ==
  [type |-> type, parent |-> parent, field |-> field, name |-> name,
   toks |-> toks, ext |-> NoNode, impl |-> [present |-> FALSE, leaves |-> <<>>],
   typ |-> NoNode, ret |-> NoNode, source |-> NoNode]

NodeType(t, n) == IF n = 0 THEN "program" ELSE t[n].type

Children(t, n) ==
  SelectSeq([i \in 1..Len(t) |-> i], LAMBDA i : t[i].parent = n)

childForFieldName(t, n, f) ==
  LET c == SelectSeq(Children(t, n), LAMBDA i : t[i].field = f)
  IN  IF c = <<>> THEN 0 ELSE c[1]

RECURSIVE Depth(_, _)
Depth(t, n) == IF n = 0 THEN 0 ELSE 1 + Depth(t, t[n].parent)

\* traverseNode without the recursion: the node and its children only
traverseNode_ChildrenOnly(t, n) == <<n>> \o Children(t, n)

\* Pre-order walk: the callback is applied to the node, then the walk recurses
\* into every child in order.  The result is the order of the callback's calls.
RECURSIVE traverseNode(_, _)
RECURSIVE traverseChildren(_, _, _)
traverseNode(t, n) == <<n>> \o traverseChildren(t, Children(t, n), 1)
traverseChildren(t, kids, i) ==
  IF i > Len(kids) THEN <<>>
  ELSE traverseNode(t, kids[i]) \o traverseChildren(t, kids, i + 1)

getNodeText(leaf) == leaf.text

\* ------------------------------------------------- TypeScriptAnalyzer
ModifierKinds == {"public", "private", "protected", "static", "abstract", "readonly"}

extractModifiers(t, n) == SelectSeq(t[n].toks, LAMBDA k : k \in ModifierKinds)

\* extractVisibility with the two tests in the other order
extractVisibility_ProtectedFirst(t, n) ==
  LET modifiers == SelectSeq(t[n].toks, LAMBDA k : k \in {"private", "protected"})
  IN  IF Includes(modifiers, "protected") THEN "protected"
      ELSE IF Includes(modifiers, "private") THEN "private"
      ELSE "public"

extractVisibility(t, n) ==
  LET modifiers == extractModifiers(t, n)
  IN  IF Includes(modifiers, "private") THEN "private"
      ELSE IF Includes(modifiers, "protected") THEN "protected"
      ELSE "public"

hasModifier(t, n, modifier) == Includes(extractModifiers(t, n), modifier)

extractExtends(t, n) ==
  IF t[n].ext.present THEN <<getNodeText(t[n].ext)>> ELSE <<>>

extractImplements(t, n) ==
  IF t[n].impl.present
  THEN MapSeq(LAMBDA l : l.text,
              SelectSeq(t[n].impl.leaves, LAMBDA l : l.type = "type_identifier"))
  ELSE <<>>

extractParameters(t, n) ==
  LET paramsNode == childForFieldName(t, n, "parameters")
      IsParam(c) == /\ t[c].type \in {"required_parameter", "optional_parameter"}
                    /\ t[c].name.present
      Param(c) == [name |-> getNodeText(t[c].name),
                   type |-> IF t[c].typ.present THEN getNodeText(t[c].typ) ELSE T_any,
                   optional |-> t[c].type = "optional_parameter"]
  IN  IF paramsNode # 0
      THEN MapSeq(Param, SelectSeq(traverseNode(t, paramsNode), IsParam))
      ELSE <<>>

\* extractProperty / extractMethod return null when the name field is absent;
\* the callers test the result before pushing it (IsNull).
Null == [null |-> TRUE]
IsNull(x) == "null" \in DOMAIN x

extractProperty(t, n) ==
  IF ~t[n].name.present THEN Null
  ELSE [name |-> getNodeText(t[n].name),
        type |-> IF t[n].typ.present THEN getNodeText(t[n].typ) ELSE T_any,
        visibility |-> extractVisibility(t, n),
        isStatic |-> hasModifier(t, n, "static"),
        isReadonly |-> hasModifier(t, n, "readonly")]

extractMethod(t, n) ==
  IF ~t[n].name.present THEN Null
  ELSE [name |-> getNodeText(t[n].name),
        parameters |-> extractParameters(t, n),
        returnType |-> IF t[n].ret.present THEN getNodeText(t[n].ret) ELSE T_void,
        visibility |-> extractVisibility(t, n),
        isStatic |-> hasModifier(t, n, "static"),
        isAbstract |-> hasModifier(t, n, "abstract")]

extractFunctionAsMethod(t, n) ==
  [name |-> IF t[n].name.present THEN getNodeText(t[n].name) ELSE T_Unknown,
   parameters |-> extractParameters(t, n),
   returnType |-> IF t[n].ret.present THEN getNodeText(t[n].ret) ELSE T_void,
   visibility |-> "public"]

Position(t, n) == [line |-> (n - 1) + 1, column |-> (Depth(t, n) - 1) + 1]

\* options.includePrivate as the code reads it: an omitted field is undefined,
\* which is falsy.
Truthy(options, f) == f \in DOMAIN options /\ options[f] = TRUE

\* the name without the sentinel: the text of the name field, found or not
NameOf_NoSentinel(t, n) == getNodeText(t[n].name)

NameOf(t, n) == IF t[n].name.present THEN getNodeText(t[n].name) ELSE T_Unknown

extractClass(t, n, options) ==
  LET bodyNode == childForFieldName(t, n, "body")
      visited == IF bodyNode # 0 THEN traverseNode(t, bodyNode) ELSE <<>>
      IsProp(c) == /\ t[c].type \in {"property_signature", "public_field_definition"}
                   /\ ~IsNull(extractProperty(t, c))
                   /\ (Truthy(options, "includePrivate")
                        \/ extractProperty(t, c).visibility # "private")
      IsMeth(c) == /\ t[c].type \in {"method_definition", "method_signature"}
                   /\ ~IsNull(extractMethod(t, c))
                   /\ (Truthy(options, "includePrivate")
                        \/ extractMethod(t, c).visibility # "private")
  IN  [type |-> "class",
       name |-> NameOf(t, n),
       properties |-> MapSeq(LAMBDA c : extractProperty(t, c), SelectSeq(visited, IsProp)),
       methods |-> MapSeq(LAMBDA c : extractMethod(t, c), SelectSeq(visited, IsMeth)),
       position |-> Position(t, n),
       modifiers |-> extractModifiers(t, n),
       extends |-> extractExtends(t, n),
       implements |-> extractImplements(t, n)]

extractInterface(t, n, options) ==
  LET bodyNode == childForFieldName(t, n, "body")
      visited == IF bodyNode # 0 THEN traverseNode(t, bodyNode) ELSE <<>>
      IsProp(c) == /\ t[c].type = "property_signature"
                   /\ ~IsNull(extractProperty(t, c))
      IsMeth(c) == /\ t[c].type = "method_signature"
                   /\ ~IsNull(extractMethod(t, c))
  IN  [type |-> "interface",
       name |-> NameOf(t, n),
       properties |-> MapSeq(LAMBDA c : extractProperty(t, c), SelectSeq(visited, IsProp)),
       methods |-> MapSeq(LAMBDA c : extractMethod(t, c), SelectSeq(visited, IsMeth)),
       position |-> Position(t, n),
       extends |-> extractExtends(t, n)]

extractFunction(t, n, options) ==
  [type |-> "function",
   name |-> NameOf(t, n),
   position |-> Position(t, n),
   methods |-> <<extractFunctionAsMethod(t, n)>>]

extractEnumMembers(t, n) ==
  LET bodyNode == childForFieldName(t, n, "body")
      visited == IF bodyNode # 0 THEN traverseNode(t, bodyNode) ELSE <<>>
      IsMember(c) == t[c].type = "property_signature" /\ t[c].name.present
  IN  MapSeq(LAMBDA c : [name |-> getNodeText(t[c].name),
                         type |-> T_stringOrNumber,
                         visibility |-> "public"],
             SelectSeq(visited, IsMember))

extractEnum(t, n, options) ==
  [type |-> "enum",
   name |-> NameOf(t, n),
   position |-> Position(t, n),
   properties |-> extractEnumMembers(t, n)]

DeclarationKinds ==
  {"class_declaration", "interface_declaration", "function_declaration", "enum_declaration"}

extractEntities(t, options) ==
  LET Extract(c) ==
        CASE t[c].type = "class_declaration" -> extractClass(t, c, options)
          [] t[c].type = "interface_declaration" -> extractInterface(t, c, options)
          [] t[c].type = "function_declaration" -> extractFunction(t, c, options)
          [] t[c].type = "enum_declaration" -> extractEnum(t, c, options)
  IN  MapSeq(Extract,
             SelectSeq(traverseNode(t, 0), LAMBDA c : NodeType(t, c) \in DeclarationKinds))

\* extractRelationships dropping a relationship equal to an earlier one
RECURSIVE Dedup(_, _)
Dedup(seq, seen) ==
  IF seq = <<>> THEN <<>>
  ELSE IF Head(seq) \in seen THEN Dedup(Tail(seq), seen)
  ELSE <<Head(seq)>> \o Dedup(Tail(seq), seen \cup {Head(seq)})

extractRelationships_Deduplicated(entities) ==
  LET Edges(e) ==
        (IF "extends" \in DOMAIN e
         THEN MapSeq(LAMBDA p : [type |-> "inheritance", from |-> e.name, to |-> p], e.extends)
         ELSE <<>>)
        \o (IF "implements" \in DOMAIN e
            THEN MapSeq(LAMBDA i : [type |-> "dependency", from |-> e.name, to |-> i,
                                    label |-> T_implements], e.implements)
            ELSE <<>>)
  IN  Dedup(FlatMap(Edges, entities), {})

extractRelationships(entities) ==
  LET Inherit(e) ==
        IF "extends" \in DOMAIN e
        THEN MapSeq(LAMBDA p : [type |-> "inheritance", from |-> e.name, to |-> p], e.extends)
        ELSE <<>>
      Implement(e) ==
        IF "implements" \in DOMAIN e
        THEN MapSeq(LAMBDA i : [type |-> "dependency", from |-> e.name, to |-> i,
                                label |-> T_implements], e.implements)
        ELSE <<>>
  IN  FlatMap(LAMBDA e : Inherit(e) \o Implement(e), entities)

\* the single and double quote characters are removed from the source text
StripQuotes(txt) == SelectSeq(txt, LAMBDA ch : ch \notin {"'", "\""})

extractImports(t) ==
  MapSeq(LAMBDA c : StripQuotes(getNodeText(t[c].source)),
         SelectSeq(traverseNode(t, 0),
                   LAMBDA c : NodeType(t, c) = "import_statement" /\ t[c].source.present))

ExportKinds == {"export_statement", "export_clause", "export_specifier"}

extractExports(t) ==
  MapSeq(LAMBDA c : getNodeText(t[c].name),
         SelectSeq(traverseNode(t, 0),
                   LAMBDA c : NodeType(t, c) \in ExportKinds /\ t[c].name.present))

\* The source text is not part of the model; the trees drawn here put each
\* node on a line of its own (Position), so the text has one line per node
\* and ''.split('\n') has length 1.
TotalLines(t) == IF Len(t) = 0 THEN 1 ELSE Len(t)

\* analyze: none of the extraction steps throws on a tree, so the catch
\* branch (TYPESCRIPT_ANALYSIS_ERROR) is not taken for any tree.
analyze(t, options, elapsed) ==
  LET entities == extractEntities(t, options)
  IN  [kind |-> "ok",
       entities |-> entities,
       relationships |-> extractRelationships(entities),
       imports |-> extractImports(t),
       exports |-> extractExports(t),
       metadata |-> [language |-> "typescript",
                     totalLines |-> TotalLines(t),
                     analysisTime |-> elapsed]]

\* ------------------------------------------------ ClassDiagramGenerator
\* A line is a text; literal fragments of the templates are kept as one
\* element each, the characters of names one element each.
WordChars ==
  {"a","b","c","d","e","f","g","h","i","j","k","l","m","n","o","p","q","r","s","t",
   "u","v","w","x","y","z",
   "A","B","C","D","E","F","G","H","I","J","K","L","M","N","O","P","Q","R","S","T",
   "U","V","W","X","Y","Z",
   "0","1","2","3","4","5","6","7","8","9","_"}

\* name.replace(/[^a-zA-Z0-9_]/g, '_')
sanitizeClassName(name) == [i \in 1..Len(name) |-> IF name[i] \in WordChars THEN name[i] ELSE "_"]

getVisibilitySymbol(visibility) ==
  CASE visibility = "private" -> "-"
    [] visibility = "protected" -> "#"
    [] OTHER -> "+"

Flag(rec, f) == f \in DOMAIN rec /\ rec[f] = TRUE

generateProperty(property) ==
  <<getVisibilitySymbol(property.visibility)>>
  \o (IF Flag(property, "isStatic") THEN <<"$ ">> ELSE <<>>)
  \o (IF Flag(property, "isReadonly") THEN <<"~ ">> ELSE <<>>)
  \o property.name \o <<" : ">> \o property.type

RECURSIVE JoinWith(_, _)
JoinWith(sep, texts) ==
  IF texts = <<>> THEN <<>>
  ELSE IF Len(texts) = 1 THEN texts[1]
  ELSE texts[1] \o sep \o JoinWith(sep, Tail(texts))

\* method.parameters.map(...) throws a TypeError when parameters is missing
MethodThrows(method) == "parameters" \notin DOMAIN method

generateMethod(method) ==
  <<getVisibilitySymbol(method.visibility)>>
  \o (IF Flag(method, "isStatic") THEN <<"$ ">> ELSE <<>>)
  \o (IF Flag(method, "isAbstract") THEN <<"* ">> ELSE <<>>)
  \o method.name \o <<"(">>
  \o JoinWith(<<", ">>, MapSeq(LAMBDA prm : prm.name \o <<": ">> \o prm.type, method.parameters))
  \o <<") : ">> \o method.returnType

\* generateClassDefinition throws when the name is missing (name.replace on
\* undefined) or when one of the methods makes generateMethod throw
ClassDefinitionThrows(entity) ==
  \/ "name" \notin DOMAIN entity
  \/ /\ "methods" \in DOMAIN entity
     /\ \E i \in 1..Len(entity.methods) : MethodThrows(entity.methods[i])

generateClassDefinition(entity) ==
  LET className == sanitizeClassName(entity.name)
  IN  <<(<<"    class ">> \o className \o <<" {">>)>>
      \o (IF entity.type = "interface" THEN <<(<<"        <<interface>>">>)>> ELSE <<>>)
      \o (IF "modifiers" \in DOMAIN entity
          THEN MapSeq(LAMBDA md : <<"        <<abstract>>">>,
                      SelectSeq(entity.modifiers, LAMBDA md : md = "abstract"))
          ELSE <<>>)
      \o (IF "properties" \in DOMAIN entity
          THEN MapSeq(LAMBDA pr : <<"        ">> \o generateProperty(pr), entity.properties)
          ELSE <<>>)
      \o (IF "methods" \in DOMAIN entity
          THEN MapSeq(LAMBDA mt : <<"        ">> \o generateMethod(mt), entity.methods)
          ELSE <<>>)
      \o <<(<<"    }">>)>>

\* the symbol table with composition and aggregation exchanged
RelationshipSymbol_Exchanged(type) ==
  CASE type = "inheritance" -> "--|>"
    [] type = "composition" -> "o--"
    [] type = "aggregation" -> "*--"
    [] type = "association" -> "-->"
    [] type = "dependency" -> "..>"
    [] OTHER -> "-->"

RelationshipSymbol(type) ==
  CASE type = "inheritance" -> "--|>"
    [] type = "composition" -> "*--"
    [] type = "aggregation" -> "o--"
    [] type = "association" -> "-->"
    [] type = "dependency" -> "..>"
    [] OTHER -> "-->"

\* sanitizeClassName(undefined) throws a TypeError
RelationshipThrows(relationship) ==
  "from" \notin DOMAIN relationship \/ "to" \notin DOMAIN relationship

NonEmptyField(rec, f) == f \in DOMAIN rec /\ rec[f] # <<>>

\* generateRelationship with the target name written as it is
generateRelationship_RawTarget(relationship) ==
  <<"    ">> \o sanitizeClassName(relationship.from)
  \o <<" ", RelationshipSymbol(relationship.type), " ">> \o relationship.to
  \o (IF NonEmptyField(relationship, "label")
      THEN <<" : ">> \o relationship.label ELSE <<>>)
  \o (IF NonEmptyField(relationship, "multiplicity")
      THEN <<" \"">> \o relationship.multiplicity \o <<"\"">> ELSE <<>>)

generateRelationship(relationship) ==
  LET fromClass == sanitizeClassName(relationship.from)
      toClass == sanitizeClassName(relationship.to)
  IN  <<"    ">> \o fromClass \o <<" ", RelationshipSymbol(relationship.type), " ">> \o toClass
      \o (IF NonEmptyField(relationship, "label")
          THEN <<" : ">> \o relationship.label ELSE <<>>)
      \o (IF NonEmptyField(relationship, "multiplicity")
          THEN <<" \"">> \o relationship.multiplicity \o <<"\"">> ELSE <<>>)

\* The lines pushed by the two loops of buildClassDiagram, up to the first
\* element that throws: [thrown, lines].
RECURSIVE EmitEntities(_, _)
EmitEntities(entities, acc) ==
  IF entities = <<>> THEN [thrown |-> FALSE, lines |-> acc]
  ELSE LET entity == Head(entities)
       IN  IF entity.type \in {"class", "interface"}
           THEN IF ClassDefinitionThrows(entity)
                THEN [thrown |-> TRUE, lines |-> acc]
                ELSE EmitEntities(Tail(entities),
                                  acc \o generateClassDefinition(entity) \o << <<>> >>)
           ELSE EmitEntities(Tail(entities), acc)

RECURSIVE EmitRelationships(_, _)
EmitRelationships(relationships, acc) ==
  IF relationships = <<>> THEN [thrown |-> FALSE, lines |-> acc]
  ELSE IF RelationshipThrows(Head(relationships))
       THEN [thrown |-> TRUE, lines |-> acc]
       ELSE EmitRelationships(Tail(relationships),
                              acc \o <<generateRelationship(Head(relationships))>>)

\* buildClassDiagram: [thrown, lines]; lines is what had been pushed when the
\* exception left the function, or the whole document
buildClassDiagram(analysisResult, options) ==
  LET header ==
        << <<"classDiagram">> >>
        \o (IF NonEmptyField(options, "direction")
            THEN <<(<<"    direction ">> \o options.direction)>> ELSE <<>>)
        \o (IF Flag(options, "includeTitle") /\ NonEmptyField(options, "title")
            THEN <<(<<"    title ">> \o options.title)>> ELSE <<>>)
        \o << <<>> >>
      blocks == EmitEntities(analysisResult.entities, header)
  IN  IF blocks.thrown THEN blocks
      ELSE EmitRelationships(analysisResult.relationships, blocks.lines)

\* lines.join('\n')
JoinLines(lines) == JoinWith(<<"\n">>, lines)

GenerationError(code, details) ==
  [kind |-> "error", name |-> "GenerationError", code |-> code, details |-> details]

Digit(n) == CASE n = 0 -> "0" [] n = 1 -> "1" [] n = 2 -> "2" [] OTHER -> "9"

\* the try block with the elapsed time written into the document
generateTry_TimeInText(analysisResult, options, elapsed) ==
  IF options.diagramType # "classDiagram"
  THEN [thrown |-> TRUE, lines |-> <<>>,
        error |-> GenerationError("INVALID_DIAGRAM_TYPE",
                                  [requestedType |-> options.diagramType])]
  ELSE LET built == buildClassDiagram(analysisResult, options)
       IN  IF built.thrown
           THEN [thrown |-> TRUE, lines |-> built.lines,
                 error |-> [kind |-> "error", name |-> "TypeError"]]
           ELSE [thrown |-> FALSE,
                 value |-> [kind |-> "ok",
                            mermaidCode |-> JoinLines(built.lines
                                                      \o <<(<<"%% ", Digit(elapsed), "ms">>)>>),
                            diagramType |-> "classDiagram",
                            metadata |-> [nodeCount |-> Len(analysisResult.entities),
                                          edgeCount |-> Len(analysisResult.relationships),
                                          generationTime |-> elapsed]]]

\* the try block of generate: [thrown, error, lines] or [thrown, value]
generateTry(analysisResult, options, elapsed) ==
  IF options.diagramType # "classDiagram"
  THEN [thrown |-> TRUE, lines |-> <<>>,
        error |-> GenerationError("INVALID_DIAGRAM_TYPE",
                                  [requestedType |-> options.diagramType])]
  ELSE LET built == buildClassDiagram(analysisResult, options)
       IN  IF built.thrown
           THEN [thrown |-> TRUE, lines |-> built.lines,
                 error |-> [kind |-> "error", name |-> "TypeError"]]
           ELSE [thrown |-> FALSE,
                 value |-> [kind |-> "ok",
                            mermaidCode |-> JoinLines(built.lines),
                            diagramType |-> "classDiagram",
                            metadata |-> [nodeCount |-> Len(analysisResult.entities),
                                          edgeCount |-> Len(analysisResult.relationships),
                                          generationTime |-> elapsed]]]

\* generate returning what had been built when emission threw
generate_PartialOnThrow(analysisResult, options, elapsed) ==
  LET attempt == generateTry(analysisResult, options, elapsed)
  IN  IF attempt.thrown
      THEN IF attempt.error.name = "TypeError"
           THEN [kind |-> "ok",
                 mermaidCode |-> JoinLines(attempt.lines),
                 diagramType |-> "classDiagram",
                 metadata |-> [nodeCount |-> Len(analysisResult.entities),
                               edgeCount |-> Len(analysisResult.relationships),
                               generationTime |-> elapsed]]
           ELSE GenerationError("CLASS_DIAGRAM_GENERATION_ERROR",
                                [error |-> attempt.error, analysisResult |-> analysisResult])
      ELSE attempt.value

\* generate: whatever the try block throws is caught and wrapped
generate(analysisResult, options, elapsed) ==
  LET attempt == generateTry(analysisResult, options, elapsed)
  IN  IF attempt.thrown
      THEN GenerationError("CLASS_DIAGRAM_GENERATION_ERROR",
                           [error |-> attempt.error, analysisResult |-> analysisResult])
      ELSE attempt.value

\* ------------------------------------------------------- bounded inputs
\* identifier and type texts used in the input trees
N_A == <<"A">>
N_B == <<"B">>
N_I == <<"I">>
N_Jdollar == <<"J", "$">>
N_AofT == <<"A", "<", "T", ">">>
N_f == <<"f">>
N_E == <<"E">>
N_x == <<"x">>
N_y == <<"y">>
N_m == <<"m">>

ImplLeaves(names) ==
  [present |-> TRUE,
   leaves |-> <<[type |-> "implements", text |-> T_implements]>>
              \o FlatMap(LAMBDA nm : <<[type |-> "type_identifier", text |-> nm],
                                       [type |-> ",", text |-> <<",">>]>>, names)]

\* declarations, as children of the program or of a statement block
ClassA(p) == MkNode("class_declaration", p, "", Leaf(N_A), <<>>)
ClassB(p) ==
  [MkNode("class_declaration", p, "", Leaf(N_B), <<>>)
     EXCEPT !.ext = Leaf(N_A), !.impl = ImplLeaves(<<N_I, N_Jdollar>>)]
ClassAnon(p) ==
  [MkNode("class_declaration", p, "", NoNode, <<"abstract">>)
     EXCEPT !.ext = Leaf(N_AofT), !.impl = ImplLeaves(<<N_I, N_I>>)]
IfaceI(p) == MkNode("interface_declaration", p, "", Leaf(N_I), <<>>)
IfaceJ(p) ==
  [MkNode("interface_declaration", p, "", Leaf(N_Jdollar), <<>>) EXCEPT !.ext = Leaf(N_I)]
FuncF(p) == [MkNode("function_declaration", p, "", Leaf(N_f), <<>>) EXCEPT !.ret = Leaf(T_number)]
EnumE(p) == MkNode("enum_declaration", p, "", Leaf(N_E), <<>>)

DeclTemplates(p) ==
  {ClassA(p), ClassB(p), ClassAnon(p), IfaceI(p), IfaceJ(p), FuncF(p), EnumE(p)}

\* member declarations, as children of a class, interface or enum body
MemberTemplates(p) ==
  { [MkNode("public_field_definition", p, "", Leaf(N_x), <<>>) EXCEPT !.typ = Leaf(T_number)],
    [MkNode("public_field_definition", p, "", Leaf(N_y), <<"private">>)
       EXCEPT !.typ = Leaf(T_string)],
    MkNode("public_field_definition", p, "", Leaf(N_x), <<"accessibility_modifier">>),
    MkNode("property_signature", p, "", Leaf(N_x), <<"protected", "private">>),
    MkNode("property_signature", p, "", Leaf(N_y), <<"protected", "static", "readonly">>),
    MkNode("property_signature", p, "", Leaf(N_y), <<"private">>),
    MkNode("property_signature", p, "", NoNode, <<"private">>),
    MkNode("method_definition", p, "", Leaf(N_m), <<"public">>),
    MkNode("method_definition", p, "", Leaf(N_f), <<"private", "static">>),
    MkNode("method_signature", p, "", Leaf(N_m), <<"protected", "abstract">>),
    MkNode("method_signature", p, "", Leaf(N_f), <<"private">>) }

ParamTemplates(p) ==
  { [MkNode("required_parameter", p, "", Leaf(N_x), <<>>) EXCEPT !.typ = Leaf(T_string)],
    MkNode("optional_parameter", p, "", Leaf(N_y), <<>>) }

BodyKinds == {"class_body", "interface_body", "enum_body"}

\* the children a node of the given kind can get
ChildTemplates(kind, p) ==
  CASE kind = "program" -> DeclTemplates(p)
    [] kind = "statement_block" -> DeclTemplates(p)
    [] kind = "class_declaration" -> {MkNode("class_body", p, "body", NoNode, <<>>)}
    [] kind = "interface_declaration" -> {MkNode("interface_body", p, "body", NoNode, <<>>)}
    [] kind = "enum_declaration" -> {MkNode("enum_body", p, "body", NoNode, <<>>)}
    [] kind \in {"function_declaration", "method_definition"} ->
         {MkNode("formal_parameters", p, "parameters", NoNode, <<>>),
          MkNode("statement_block", p, "body", NoNode, <<>>)}
    [] kind = "method_signature" -> {MkNode("formal_parameters", p, "parameters", NoNode, <<>>)}
    [] kind \in BodyKinds -> MemberTemplates(p)
    [] kind = "formal_parameters" -> ParamTemplates(p)
    [] OTHER -> {}

\* the nodes still open when the parser has produced t: the last node and
\* its ancestors (the tree is listed in pre-order)
RECURSIVE OpenNodes(_, _)
OpenNodes(t, n) == IF n = 0 THEN {0} ELSE {n} \cup OpenNodes(t, t[n].parent)

Extensions(t) ==
  { Append(t, nd) :
      nd \in UNION { { c \in ChildTemplates(NodeType(t, p), p) :
                         c.field = "" \/ childForFieldName(t, p, c.field) = 0 } :
                     p \in OpenNodes(t, Len(t)) } }

RECURSIVE TreesOfSize(_)
TreesOfSize(k) ==
  IF k = 0 THEN {<<>>} ELSE UNION { Extensions(t) : t \in TreesOfSize(k - 1) }

SmallTrees == UNION { TreesOfSize(k) : k \in 0..MaxNodes }

\* The sample of the integration test: class Animal { private name; public
\* age; constructor; makeSound }  class Dog extends Animal { public breed;
\* constructor; makeSound; fetch }, with the visibility keywords as direct
\* children of the members.
N_Animal == <<"A", "n", "i", "m", "a", "l">>
N_Dog == <<"D", "o", "g">>
N_name == <<"n", "a", "m", "e">>
N_age == <<"a", "g", "e">>
N_breed == <<"b", "r", "e", "e", "d">>
N_item == <<"i", "t", "e", "m">>
N_constructor == <<"c", "o", "n", "s", "t", "r", "u", "c", "t", "o", "r">>
N_makeSound == <<"m", "a", "k", "e", "S", "o", "u", "n", "d">>
N_fetch == <<"f", "e", "t", "c", "h">>

Fld(p, nm, toks, ty) ==
  [MkNode("public_field_definition", p, "", Leaf(nm), toks) EXCEPT !.typ = Leaf(ty)]
Mth(p, nm, toks) == MkNode("method_definition", p, "", Leaf(nm), toks)
MthVoid(p, nm, toks) == [Mth(p, nm, toks) EXCEPT !.ret = Leaf(T_void)]
Prm(p, nm, ty) ==
  [MkNode("required_parameter", p, "", Leaf(nm), <<>>) EXCEPT !.typ = Leaf(ty)]
Params(p) == MkNode("formal_parameters", p, "parameters", NoNode, <<>>)
Block(p) == MkNode("statement_block", p, "body", NoNode, <<>>)

SampleTree ==
  << MkNode("class_declaration", 0, "", Leaf(N_Animal), <<>>),            \* 1
     MkNode("class_body", 1, "body", NoNode, <<>>),                       \* 2
     Fld(2, N_name, <<"private">>, T_string),                             \* 3
     Fld(2, N_age, <<"public">>, T_number),                               \* 4
     Mth(2, N_constructor, <<>>),                                         \* 5
     Params(5), Prm(6, N_name, T_string), Prm(6, N_age, T_number),        \* 6 7 8
     Block(5),                                                            \* 9
     MthVoid(2, N_makeSound, <<"public">>), Params(10), Block(10),        \* 10 11 12
     [MkNode("class_declaration", 0, "", Leaf(N_Dog), <<>>)
        EXCEPT !.ext = Leaf(N_Animal)],                                   \* 13
     MkNode("class_body", 13, "body", NoNode, <<>>),                      \* 14
     Fld(14, N_breed, <<"public">>, T_string),                            \* 15
     Mth(14, N_constructor, <<>>),                                        \* 16
     Params(16), Prm(17, N_name, T_string), Prm(17, N_age, T_number),     \* 17 18 19
     Prm(17, N_breed, T_string), Block(16),                               \* 20 21
     MthVoid(14, N_makeSound, <<"public">>), Params(22), Block(22),       \* 22 23 24
     MthVoid(14, N_fetch, <<"public">>), Params(25),                      \* 25 26
     Prm(26, N_item, T_string), Block(25) >>                              \* 27 28

\* A class declared inside a method of another class, five levels deep, and
\* an interface with a private member next to it.
NestedTree ==
  << MkNode("class_declaration", 0, "", Leaf(N_A), <<>>),                 \* 1
     MkNode("class_body", 1, "body", NoNode, <<>>),                       \* 2
     Mth(2, N_m, <<"protected">>),                                        \* 3
     Block(3),                                                            \* 4
     [MkNode("class_declaration", 4, "", Leaf(N_B), <<>>)
        EXCEPT !.ext = Leaf(N_A)],                                        \* 5
     MkNode("class_body", 5, "body", NoNode, <<>>),                       \* 6
     Fld(6, N_y, <<"private">>, T_string),                                \* 7
     MkNode("interface_declaration", 0, "", Leaf(N_I), <<>>),             \* 8
     MkNode("interface_body", 8, "body", NoNode, <<>>),                   \* 9
     MkNode("property_signature", 9, "", Leaf(N_x), <<"private">>),       \* 10
     MkNode("method_signature", 9, "", Leaf(N_m), <<>>) >>                \* 11

\* Five declarations whose names and supertypes carry characters outside
\* [A-Za-z0-9_], one of them without a name.
SpecialTree ==
  << ClassB(0), ClassAnon(0),
     MkNode("class_body", 2, "body", NoNode, <<>>),
     MkNode("property_signature", 3, "", Leaf(N_x), <<>>),
     [MkNode("method_signature", 3, "", Leaf(N_m), <<"abstract">>) EXCEPT !.ret = Leaf(T_string)],
     IfaceJ(0), FuncF(0), EnumE(0) >>

\* class A { m(cb: (x: number) => void, y?) {} }
\* function f(cb: (x: number) => void) {}
\* The type of cb is a function type with a parameter list of its own.
N_cb == <<"c", "b">>
T_callback ==
  <<"(", "x", ":", " ", "n", "u", "m", "b", "e", "r", ")", " ", "=", ">", " ", "v", "o",
    "i", "d">>
TypeAnnotation(p) == MkNode("type_annotation", p, "type", NoNode, <<>>)
FunctionType(p) == MkNode("function_type", p, "", NoNode, <<>>)

CallbackTree ==
  << MkNode("class_declaration", 0, "", Leaf(N_A), <<>>),                 \* 1
     MkNode("class_body", 1, "body", NoNode, <<>>),                       \* 2
     Mth(2, N_m, <<>>),                                                   \* 3
     Params(3),                                                           \* 4
     Prm(4, N_cb, T_callback),                                            \* 5
     TypeAnnotation(5), FunctionType(6), Params(7),                       \* 6 7 8
     Prm(8, N_x, T_number),                                               \* 9
     MkNode("optional_parameter", 4, "", Leaf(N_y), <<>>),                \* 10
     Block(3),                                                            \* 11
     MkNode("function_declaration", 0, "", Leaf(N_f), <<>>),              \* 12
     Params(12),                                                          \* 13
     Prm(13, N_cb, T_callback),                                           \* 14
     TypeAnnotation(14), FunctionType(15), Params(16),                    \* 15 16 17
     Prm(17, N_x, T_number),                                              \* 18
     Block(12) >>                                                         \* 19

ScenarioTrees == {SampleTree, NestedTree, SpecialTree, CallbackTree}

Trees == SmallTrees \cup ScenarioTrees

\* ------------------------------------------------------ analysis options
\* The options a caller passes: includePrivate and maxDepth may be omitted.
RawIncludePrivate == {[language |-> "typescript"]}
                     \cup {[language |-> "typescript", includePrivate |-> b] : b \in BOOLEAN}

MinMaxDepth == 1
MaxMaxDepth == 10
DefaultMaxDepth == 5

RawOptions ==
  RawIncludePrivate
  \cup { [f \in DOMAIN o \cup {"maxDepth"} |-> IF f = "maxDepth" THEN d ELSE o[f]] :
           o \in RawIncludePrivate, d \in {MinMaxDepth, MaxMaxDepth + 1} }

\* CodeAnalysisOptionsSchema.parse: fills the defaults in, rejects a maxDepth
\* outside [1, 10].
ParseCodeAnalysisOptions(raw) ==
  IF "maxDepth" \in DOMAIN raw /\ (raw.maxDepth < MinMaxDepth \/ raw.maxDepth > MaxMaxDepth)
  THEN [ok |-> FALSE]
  ELSE [ok |-> TRUE,
        value |-> [language |-> raw.language,
                   includePrivate |-> IF "includePrivate" \in DOMAIN raw
                                      THEN raw.includePrivate ELSE TRUE,
                   includeComments |-> FALSE,
                   maxDepth |-> IF "maxDepth" \in DOMAIN raw
                                THEN raw.maxDepth ELSE DefaultMaxDepth]]

\* ---------------------------------------------------------------- state
VARIABLES
  tree,      \* the syntax tree the parser returned for the source text
  request,   \* the last analysis call: entry point and the options analyze received
  analysis,  \* its outcome; the analysis result handed to the generator
  calls      \* the generate calls made so far: input, options, outcome

\* The servers run in processes of their own; the analyzer and the generator
\* never touch their state.
VARIABLES
  globalScope,  \* the properties window, document, DOMPurify of the global object
  jsdom,        \* the renderWithJSDOM / validateWithJSDOM calls: position and locals
  toolCall,     \* the tool call being served by SimpleMermaidMCPServer
  toolEffects,  \* what the call started and wrote, in order
  toolReply,    \* the response of the call
  responses,    \* SSETransport: the /sse requests and the state of their responses
  activeConnections,  \* SSETransport.activeConnections
  httpServer,   \* the server returned by app.listen
  process,      \* signals received and the exit code
  mcpCall       \* MermaidChartMCPServer: the last tool call and its response

analyzerVars == <<tree, request, analysis, calls>>
jsdomVars == <<globalScope, jsdom>>
toolVars == <<toolCall, toolEffects, toolReply>>
sseVars == <<responses, activeConnections, httpServer, process>>
serverVars == <<jsdomVars, toolVars, sseVars, mcpCall>>
vars == <<analyzerVars, serverVars>>

\* a property that is not there (never set, or deleted)
Undefined == [kind |-> "undefined"]

NoGlobals == [window |-> Undefined, document |-> Undefined, DOMPurify |-> Undefined]
NoToolCall == [name |-> "none"]
NoReply == [kind |-> "none"]
NotStarted == [state |-> "not started"]

JsdomIdle == globalScope = NoGlobals /\ jsdom = <<>>
ToolIdle == toolCall = NoToolCall /\ toolEffects = <<>> /\ toolReply = NoReply
SseIdle ==
  /\ responses = <<>> /\ activeConnections = {}
  /\ httpServer = NotStarted /\ process = NotStarted
McpIdle == mcpCall = NoToolCall
ServerIdle == JsdomIdle /\ ToolIdle /\ SseIdle /\ McpIdle

NoRequest == [via |-> "none"]
NoAnalysis == [kind |-> "none"]

Init ==
  /\ tree \in Trees
  /\ request = NoRequest
  /\ analysis = NoAnalysis
  /\ calls = <<>>
  /\ ServerIdle

\* a caller (the integration test, examples/basic-usage.ts) calls analyze
\* with the options it wrote
AnalyzeDirect(raw, elapsed) ==
  /\ request = NoRequest
  /\ request' = [via |-> "analyze", options |-> raw]
  /\ analysis' = analyze(tree, raw, elapsed)
  /\ UNCHANGED <<tree, calls, serverVars>>

\* MermaidChartMCPServer.handleAnalyzeCode: parse the options, then analyze
HandleAnalyzeCode(raw, elapsed) ==
  LET parsed == ParseCodeAnalysisOptions(raw)
  IN  /\ request = NoRequest
      /\ IF parsed.ok
         THEN /\ request' = [via |-> "handleAnalyzeCode", options |-> parsed.value]
              /\ analysis' = analyze(tree, parsed.value, elapsed)
         ELSE /\ request' = [via |-> "handleAnalyzeCode", rejected |-> raw]
              /\ analysis' = [kind |-> "error", name |-> "ZodError"]
      /\ UNCHANGED <<tree, calls, serverVars>>

\* The caller has consumed the outcome; entities and relationships are held
\* for one run only, the next call starts from nothing.
Release ==
  /\ request # NoRequest
  /\ request' = NoRequest
  /\ analysis' = NoAnalysis
  /\ UNCHANGED <<tree, calls, serverVars>>

Next ==
  \/ \E raw \in RawOptions, elapsed \in 0..MaxElapsed : AnalyzeDirect(raw, elapsed)
  \/ \E raw \in RawOptions, elapsed \in 0..MaxElapsed : HandleAnalyzeCode(raw, elapsed)
  \/ Release

Spec == Init /\ [][Next]_vars

\* ------------------------------------------------- generator in isolation
\* generate is a public method: besides the analyzer's results it is given
\* results assembled by a caller, complete or not.
DefaultAnalysisOptions == ParseCodeAnalysisOptions([language |-> "typescript"]).value

N_adotb == <<"a", ".", "b">>
T_one == <<"1">>
T_owns == <<"o", "w", "n", "s">>

ManualMetadata == [language |-> "typescript", totalLines |-> 1, analysisTime |-> 0]

ManualResult ==
  [kind |-> "ok",
   entities |-> << [type |-> "class", name |-> N_adotb],
                   [type |-> "interface", name |-> N_A, properties |-> <<>>, methods |-> <<>>],
                   [type |-> "variable", name |-> N_x] >>,
   relationships |->
     << [type |-> "composition", from |-> N_adotb, to |-> N_A,
         label |-> T_owns, multiplicity |-> T_one],
        [type |-> "aggregation", from |-> N_A, to |-> N_adotb, multiplicity |-> T_one],
        [type |-> "association", from |-> N_adotb, to |-> N_AofT],
        [type |-> "uses", from |-> N_A, to |-> N_A, label |-> <<>>] >>,
   imports |-> <<>>, exports |-> <<>>, metadata |-> ManualMetadata]

\* the second class has a method without a parameters list
MissingParametersResult ==
  [kind |-> "ok",
   entities |-> << [type |-> "class", name |-> N_A, properties |-> <<>>, methods |-> <<>>],
                   [type |-> "class", name |-> N_B, properties |-> <<>>,
                    methods |-> << [name |-> N_m, returnType |-> T_void,
                                    visibility |-> "public"] >>] >>,
   relationships |-> << [type |-> "inheritance", from |-> N_B, to |-> N_A] >>,
   imports |-> <<>>, exports |-> <<>>, metadata |-> ManualMetadata]

\* the second relationship has no target
MissingEndpointResult ==
  [kind |-> "ok",
   entities |-> << [type |-> "class", name |-> N_A, properties |-> <<>>, methods |-> <<>>] >>,
   relationships |-> << [type |-> "inheritance", from |-> N_A, to |-> N_B],
                        [type |-> "dependency", from |-> N_A] >>,
   imports |-> <<>>, exports |-> <<>>, metadata |-> ManualMetadata]

GenInputs ==
  { analyze(SampleTree, DefaultAnalysisOptions, 0),
    analyze(NestedTree, DefaultAnalysisOptions, 0),
    analyze(SpecialTree, DefaultAnalysisOptions, 0),
    analyze(<<>>, DefaultAnalysisOptions, 0),
    ManualResult, MissingParametersResult, MissingEndpointResult }

T_LR == <<"L", "R">>
T_TB == <<"T", "B">>
T_title == <<"Z", "o", "o">>

GenOptions ==
  { [diagramType |-> "classDiagram", direction |-> T_TB],
    [diagramType |-> "classDiagram", direction |-> T_LR, includeTitle |-> TRUE,
     title |-> T_title],
    [diagramType |-> "classDiagram", includeTitle |-> TRUE],
    [diagramType |-> "flowchart", direction |-> T_TB] }

InitGen ==
  /\ tree = <<>>
  /\ request = [via |-> "supplied"]
  /\ analysis \in GenInputs
  /\ calls = <<>>
  /\ ServerIdle

\* calls keeps the latest call and one earlier call, any of those made before
Retained(log) == IF Len(log) <= 1 THEN {log} ELSE {<<log[1]>>, <<log[2]>>}

\* one call of generate on the shared generator instance; the method has no
\* await, so the call runs to its result without interleaving
Generate(options, elapsed) ==
  /\ analysis.kind = "ok"
  /\ \E kept \in Retained(calls) :
       calls' = Append(kept, [input |-> analysis, options |-> options,
                              outcome |-> generate(analysis, options, elapsed)])
  /\ UNCHANGED <<tree, request, analysis, serverVars>>

\* the next caller brings another analysis result
Supply(result) ==
  /\ analysis # result
  /\ analysis' = result
  /\ UNCHANGED <<tree, request, calls, serverVars>>

NextGen ==
  \/ \E options \in GenOptions, elapsed \in 0..MaxElapsed : Generate(options, elapsed)
  \/ \E result \in GenInputs : Supply(result)

SpecGen == InitGen /\ [][NextGen]_vars

\* ===================================================================
\* Properties of the analyzer (specification Spec)
\* ===================================================================
Ids(t) == [i \in 1..Len(t) |-> i]

ClassLikeNodes(t) ==
  SelectSeq(Ids(t), LAMBDA i : t[i].type \in {"class_declaration", "interface_declaration"})

ClassLikeEntities(entities) ==
  SelectSeq(entities, LAMBDA e : e.type \in {"class", "interface"})

RECURSIVE IsUnder(_, _, _)
IsUnder(t, c, b) == c # 0 /\ (t[c].parent = b \/ IsUnder(t, t[c].parent, b))

\* the number of declarations enclosing node n, n included
RECURSIVE DeclDepth(_, _)
DeclDepth(t, n) ==
  IF n = 0 THEN 0
  ELSE (IF t[n].type \in DeclarationKinds THEN 1 ELSE 0) + DeclDepth(t, t[n].parent)

DeclaredVisibility(toks) ==
  IF \E i \in 1..Len(toks) : toks[i] = "private" THEN "private"
  ELSE IF \E i \in 1..Len(toks) : toks[i] = "protected" THEN "protected"
  ELSE "public"

PropertyKinds(declType) ==
  IF declType = "class_declaration"
  THEN {"property_signature", "public_field_definition"} ELSE {"property_signature"}

MethodKinds(declType) ==
  IF declType = "class_declaration"
  THEN {"method_definition", "method_signature"} ELSE {"method_signature"}

\* the named member nodes of the given kinds below the body of declaration d
MemberNodes(t, d, kinds) ==
  LET b == childForFieldName(t, d, "body")
  IN  IF b = 0 THEN <<>>
      ELSE SelectSeq(Ids(t), LAMBDA c : /\ IsUnder(t, c, b)
                                        /\ t[c].type \in kinds
                                        /\ t[c].name.present)

NameAndVisibility(members) == MapSeq(LAMBDA m : <<m.name, m.visibility>>, members)

DeclaredMembers(t, nodes, keepPrivate) ==
  MapSeq(LAMBDA c : <<t[c].name.text, DeclaredVisibility(t[c].toks)>>,
         SelectSeq(nodes, LAMBDA c : keepPrivate \/ DeclaredVisibility(t[c].toks) # "private"))

Analyzed == analysis.kind = "ok" /\ "options" \in DOMAIN request

\* C2: with includePrivate=false no class or interface entity keeps a member
\* of derived visibility private, and every named public or protected member
\* is still listed.
C2_PrivateMembersRemoved ==
  (Analyzed /\ "includePrivate" \in DOMAIN request.options
            /\ request.options.includePrivate = FALSE)
  => LET es == ClassLikeEntities(analysis.entities)
         ds == ClassLikeNodes(tree)
     IN  /\ Len(es) = Len(ds)
         /\ \A k \in 1..Len(es) :
              /\ NameAndVisibility(es[k].properties)
                   = DeclaredMembers(tree, MemberNodes(tree, ds[k], PropertyKinds(tree[ds[k]].type)),
                                     FALSE)
              /\ NameAndVisibility(es[k].methods)
                   = DeclaredMembers(tree, MemberNodes(tree, ds[k], MethodKinds(tree[ds[k]].type)),
                                     FALSE)

\* C3: when the options omit includePrivate, analyze returns the entities it
\* returns for includePrivate=true.
C3_OmittedIncludePrivateMeansTrue ==
  (Analyzed /\ "includePrivate" \notin DOMAIN request.options)
  => analysis.entities
       = extractEntities(tree, [f \in DOMAIN request.options \cup {"includePrivate"} |->
                                  IF f = "includePrivate" THEN TRUE ELSE request.options[f]])

\* C4: no declaration nested deeper than options.maxDepth yields an entity.
C4_TraversalBoundedByMaxDepth ==
  (Analyzed /\ "maxDepth" \in DOMAIN request.options)
  => Len(analysis.entities)
       = Cardinality({i \in 1..Len(tree) :
                        /\ tree[i].type \in DeclarationKinds
                        /\ DeclDepth(tree, i) <= request.options.maxDepth})

SupertypesOf(e, f) == IF f \in DOMAIN e THEN e[f] ELSE <<>>

\* the number of relationships due to the entities before the k-th
RECURSIVE EdgesBefore(_, _)
EdgesBefore(entities, k) ==
  IF k <= 1 THEN 0
  ELSE EdgesBefore(entities, k - 1)
       + Len(SupertypesOf(entities[k - 1], "extends"))
       + Len(SupertypesOf(entities[k - 1], "implements"))

\* C7: the relationships are, entity by entity in the given order, one
\* inheritance per name in extends and then one dependency labelled
\* "implements" per name in implements, each in stored order, repetitions
\* kept, and nothing else.
C7_RelationshipsInOrder ==
  Analyzed
  => LET es == analysis.entities
         rs == analysis.relationships
     IN  /\ Len(rs) = EdgesBefore(es, Len(es) + 1)
         /\ \A k \in 1..Len(es) :
              LET ext == SupertypesOf(es[k], "extends")
                  imp == SupertypesOf(es[k], "implements")
                  base == EdgesBefore(es, k)
              IN  /\ \A j \in 1..Len(ext) :
                       rs[base + j] = [type |-> "inheritance", from |-> es[k].name,
                                       to |-> ext[j]]
                  /\ \A j \in 1..Len(imp) :
                       rs[base + Len(ext) + j]
                         = [type |-> "dependency", from |-> es[k].name, to |-> imp[j],
                            label |-> T_implements]

\* an entity with extends=[A] and implements=[I, J$], and a repeated edge
C7_Witness ==
  /\ Analyzed
  /\ \E k \in 1..Len(analysis.entities) :
       /\ Len(SupertypesOf(analysis.entities[k], "extends")) = 1
       /\ Len(SupertypesOf(analysis.entities[k], "implements")) = 2
  /\ \E i, j \in 1..Len(analysis.relationships) :
       i < j /\ analysis.relationships[i] = analysis.relationships[j]

HasVisibilityToken(toks) == \E i \in 1..Len(toks) : toks[i] \in {"private", "protected"}

\* the block of entity e holds the line of the member, and it starts with symbol
RenderedWith(e, memberText, symbol) ==
  /\ memberText[1] = symbol
  /\ \E i \in 1..Len(generateClassDefinition(e)) :
       generateClassDefinition(e)[i] = <<"        ">> \o memberText

\* C8: a member is private if a private token is a direct child of its node,
\* otherwise protected if a protected token is, otherwise public; a member
\* without visibility token is public and its line starts with '+'.
C8_VisibilityPrecedence ==
  (Analyzed /\ Truthy(request.options, "includePrivate"))
  => LET es == ClassLikeEntities(analysis.entities)
         ds == ClassLikeNodes(tree)
     IN  /\ Len(es) = Len(ds)
         /\ \A k \in 1..Len(es) :
              LET pn == MemberNodes(tree, ds[k], PropertyKinds(tree[ds[k]].type))
                  mn == MemberNodes(tree, ds[k], MethodKinds(tree[ds[k]].type))
              IN  /\ Len(es[k].properties) = Len(pn)
                  /\ Len(es[k].methods) = Len(mn)
                  /\ \A j \in 1..Len(pn) :
                       /\ es[k].properties[j].visibility = DeclaredVisibility(tree[pn[j]].toks)
                       /\ ~HasVisibilityToken(tree[pn[j]].toks)
                            => /\ es[k].properties[j].visibility = "public"
                               /\ RenderedWith(es[k], generateProperty(es[k].properties[j]), "+")
                  /\ \A j \in 1..Len(mn) :
                       /\ es[k].methods[j].visibility = DeclaredVisibility(tree[mn[j]].toks)
                       /\ ~HasVisibilityToken(tree[mn[j]].toks)
                            => /\ es[k].methods[j].visibility = "public"
                               /\ RenderedWith(es[k], generateMethod(es[k].methods[j]), "+")

\* a property carrying both tokens came out private, next to one without token
C8_Witness ==
  /\ Analyzed /\ Truthy(request.options, "includePrivate")
  /\ \E k \in 1..Len(analysis.entities) :
       /\ analysis.entities[k].type = "class"
       /\ \E c \in 1..Len(tree) :
            /\ IsUnder(tree, c, analysis.entities[k].position.line)
            /\ Includes(tree[c].toks, "private") /\ Includes(tree[c].toks, "protected")
            /\ tree[c].type = "property_signature"
       /\ \E j \in 1..Len(analysis.entities[k].properties) :
            analysis.entities[k].properties[j].visibility = "private"

\* ===================================================================
\* Properties of the generator (specification SpecGen)
\* ===================================================================
\* C1: a call with a diagramType other than classDiagram fails with a
\* GenerationError whose code is INVALID_DIAGRAM_TYPE, without any text.
C1_InvalidDiagramTypeReported ==
  \A i \in 1..Len(calls) :
    calls[i].options.diagramType # "classDiagram"
    => /\ calls[i].outcome.kind = "error"
       /\ calls[i].outcome.name = "GenerationError"
       /\ calls[i].outcome.code = "INVALID_DIAGRAM_TYPE"
       /\ "mermaidCode" \notin DOMAIN calls[i].outcome

\* text.split('\n')
RECURSIVE SplitLines(_)
SplitLines(text) ==
  IF \A i \in 1..Len(text) : text[i] # "\n" THEN <<text>>
  ELSE LET k == CHOOSE i \in 1..Len(text) :
                  text[i] = "\n" /\ \A j \in 1..(i - 1) : text[j] # "\n"
       IN  <<SubSeq(text, 1, k - 1)>> \o SplitLines(SubSeq(text, k + 1, Len(text)))

IsBlockHeader(line) ==
  Len(line) >= 2 /\ line[1] = "    class " /\ line[Len(line)] = " {"
BlockLabel(line) == SubSeq(line, 2, Len(line) - 1)
IsBlockEnd(line) == line = <<"    }">>
IsRelationshipLine(line) == Len(line) >= 1 /\ line[1] = "    "

\* the last index of the run of identifier characters that starts at from
RECURSIVE RunEnd(_, _)
RunEnd(line, from) ==
  IF from <= Len(line) /\ line[from] \in WordChars THEN RunEnd(line, from + 1) ELSE from - 1

EdgeTokens == {"--|>", "*--", "o--", "-->", "..>"}

\* a relationship line read back: <from> <symbol> <to> and the rest
WellFormedEdge(line) ==
  LET e == RunEnd(line, 2)
  IN  /\ Len(line) >= e + 3
      /\ line[e + 1] = " " /\ line[e + 2] \in EdgeTokens /\ line[e + 3] = " "
      /\ LET f == RunEnd(line, e + 4)
         IN  f = Len(line) \/ line[f + 1] \in {" : ", " \""}
EdgeFrom(line) == SubSeq(line, 2, RunEnd(line, 2))
EdgeTo(line) == SubSeq(line, RunEnd(line, 2) + 4, RunEnd(line, RunEnd(line, 2) + 4))

OnlyWordChars(text) == \A i \in 1..Len(text) : text[i] \in WordChars

\* label is name with every character outside [A-Za-z0-9_] replaced by '_'
IsSanitized(label, name) ==
  /\ Len(label) = Len(name)
  /\ \A i \in 1..Len(name) : label[i] = IF name[i] \in WordChars THEN name[i] ELSE "_"

Returned(i) == calls[i].outcome.kind = "ok"
HeaderLines(i) == SelectSeq(SplitLines(calls[i].outcome.mermaidCode), IsBlockHeader)
BlockEndLines(i) == SelectSeq(SplitLines(calls[i].outcome.mermaidCode), IsBlockEnd)
EdgeLines(i) == SelectSeq(SplitLines(calls[i].outcome.mermaidCode), IsRelationshipLine)

\* C6: in the returned text every block label and every relationship endpoint
\* is the sanitized name, made of [A-Za-z0-9_] only, and an endpoint naming an
\* entity is the very label of that entity's block.
C6_SanitizedNamesAgree ==
  \A i \in 1..Len(calls) :
    Returned(i)
    => LET es == ClassLikeEntities(calls[i].input.entities)
           rs == calls[i].input.relationships
           hs == HeaderLines(i)
           ls == EdgeLines(i)
       IN  /\ Len(hs) = Len(es)
           /\ Len(ls) = Len(rs)
           /\ \A k \in 1..Len(es) :
                OnlyWordChars(BlockLabel(hs[k])) /\ IsSanitized(BlockLabel(hs[k]), es[k].name)
           /\ \A k \in 1..Len(rs) :
                /\ WellFormedEdge(ls[k])
                /\ IsSanitized(EdgeFrom(ls[k]), rs[k].from)
                /\ IsSanitized(EdgeTo(ls[k]), rs[k].to)
                /\ \A j \in 1..Len(es) :
                     /\ rs[k].from = es[j].name => EdgeFrom(ls[k]) = BlockLabel(hs[j])
                     /\ rs[k].to = es[j].name => EdgeTo(ls[k]) = BlockLabel(hs[j])

\* an entity whose name needs sanitizing is also the target of a relationship
C6_Witness ==
  \E i \in 1..Len(calls) :
    /\ Returned(i)
    /\ \E k \in 1..Len(calls[i].input.relationships),
          j \in 1..Len(calls[i].input.entities) :
         /\ calls[i].input.entities[j].type \in {"class", "interface"}
         /\ calls[i].input.relationships[k].to = calls[i].input.entities[j].name
         /\ ~OnlyWordChars(calls[i].input.entities[j].name)

\* C9: two calls with the same analysis result and options end alike, and
\* when they return, their mermaidCode is the same text.
C9_TextDependsOnInputOnly ==
  \A i, j \in 1..Len(calls) :
    (calls[i].input = calls[j].input /\ calls[i].options = calls[j].options)
    => /\ calls[i].outcome.kind = calls[j].outcome.kind
       /\ Returned(i) => calls[i].outcome.mermaidCode = calls[j].outcome.mermaidCode

\* the same call made twice, taking different times
C9_Witness ==
  /\ Len(calls) = 2
  /\ calls[1].input = calls[2].input /\ calls[1].options = calls[2].options
  /\ Returned(1) /\ Returned(2)
  /\ calls[1].outcome.metadata.generationTime # calls[2].outcome.metadata.generationTime
  /\ Len(calls[1].input.entities) > 0

EmissionThrows(input) ==
  \/ \E k \in 1..Len(input.entities) :
       /\ input.entities[k].type \in {"class", "interface"}
       /\ \/ "name" \notin DOMAIN input.entities[k]
          \/ /\ "methods" \in DOMAIN input.entities[k]
             /\ \E m \in 1..Len(input.entities[k].methods) :
                  "parameters" \notin DOMAIN input.entities[k].methods[m]
  \/ \E k \in 1..Len(input.relationships) :
       {"from", "to"} \ DOMAIN input.relationships[k] # {}

\* C10: a call returns the whole document (one closed block per class or
\* interface entity, one line per relationship) or fails with a
\* GenerationError of code CLASS_DIAGRAM_GENERATION_ERROR that carries the
\* original error and the input and no text; it fails whenever emission throws.
C10_CompleteOrNothing ==
  \A i \in 1..Len(calls) :
    LET out == calls[i].outcome
        typeOk == calls[i].options.diagramType = "classDiagram"
    IN  /\ out.kind \in {"ok", "error"}
        /\ out.kind = "ok"
             => /\ typeOk /\ ~EmissionThrows(calls[i].input)
                /\ Len(HeaderLines(i)) = Len(ClassLikeEntities(calls[i].input.entities))
                /\ Len(BlockEndLines(i)) = Len(HeaderLines(i))
                /\ Len(EdgeLines(i)) = Len(calls[i].input.relationships)
                /\ SplitLines(out.mermaidCode)[1] = <<"classDiagram">>
        /\ out.kind = "error"
             => /\ out.name = "GenerationError"
                /\ out.code = "CLASS_DIAGRAM_GENERATION_ERROR"
                /\ out.details.analysisResult = calls[i].input
                /\ "mermaidCode" \notin DOMAIN out
                /\ typeOk => (EmissionThrows(calls[i].input)
                              /\ out.details.error.name = "TypeError")
        /\ (typeOk /\ EmissionThrows(calls[i].input)) => out.kind = "error"

\* emission threw after the first block had been built
C10_Witness ==
  \E i \in 1..Len(calls) :
    /\ calls[i].options.diagramType = "classDiagram"
    /\ calls[i].input = MissingParametersResult
    /\ calls[i].outcome.kind = "error"
    /\ calls[i].outcome.details.error.name = "TypeError"
    /\ buildClassDiagram(calls[i].input, calls[i].options).thrown
    /\ Len(buildClassDiagram(calls[i].input, calls[i].options).lines) > 3

\* the line the documentation gives for a relationship
SymbolFor ==
  [inheritance |-> "--|>", composition |-> "*--", aggregation |-> "o--",
   association |-> "-->", dependency |-> "..>"]

WordOnly(name) ==
  [i \in 1..Len(name) |-> IF name[i] \in WordChars THEN name[i] ELSE "_"]

DocumentedEdge(r) ==
  <<"    ">> \o WordOnly(r.from)
  \o <<" ", (IF r.type \in DOMAIN SymbolFor THEN SymbolFor[r.type] ELSE "-->"), " ">>
  \o WordOnly(r.to)
  \o (IF "label" \in DOMAIN r /\ Len(r.label) > 0 THEN <<" : ">> \o r.label ELSE <<>>)
  \o (IF "multiplicity" \in DOMAIN r /\ Len(r.multiplicity) > 0
      THEN <<" \"">> \o r.multiplicity \o <<"\"">> ELSE <<>>)

\* C11: the text a call returns ends with one line per relationship, in input
\* order and below every entity block; line k reads "<from> <symbol> <to>" with
\* the sanitized names and the symbol of the relationship type (--> for a type
\* outside the five), then " : <label>" for a non-empty label, then
\* " "<multiplicity>"" for a non-empty multiplicity.
C11_OneLinePerRelationship ==
  \A i \in 1..Len(calls) :
    Returned(i)
    => LET text == SplitLines(calls[i].outcome.mermaidCode)
           rs == calls[i].input.relationships
           first == Len(text) - Len(rs)
       IN  /\ first >= 0
           /\ \A k \in 1..Len(rs) : text[first + k] = DocumentedEdge(rs[k])
           /\ \A n \in 1..first : ~IsRelationshipLine(text[n])
           /\ \A n \in 1..Len(text) :
                (IsBlockHeader(text[n]) \/ IsBlockEnd(text[n])) => n <= first

DogExtendsAnimal ==
  <<"    ", "D", "o", "g", " ", "--|>", " ", "A", "n", "i", "m", "a", "l">>

\* the sample's "Dog --|> Animal" has been emitted, and so has a relationship
\* with a label and a multiplicity
C11_Witness ==
  /\ \E i \in 1..Len(calls) :
       /\ Returned(i)
       /\ Len(ClassLikeEntities(calls[i].input.entities)) = 2
       /\ EdgeLines(i) = <<DogExtendsAnimal>>
  /\ \E i \in 1..Len(calls) :
       /\ Returned(i)
       /\ \E k \in 1..Len(calls[i].input.relationships) :
            /\ NonEmptyField(calls[i].input.relationships[k], "label")
            /\ NonEmptyField(calls[i].input.relationships[k], "multiplicity")
            /\ calls[i].input.relationships[k].type = "composition"

\* ===================================================================
\* Properties of the analyzer on the sample sources (specification Spec)
\* ===================================================================
\* the tree of the empty text: a program node without children
EmptySourceTree == <<>>

\* C12: analyze called on the empty source text ends in an error, never in
\* an analysis result.
C12_EmptySourceRejected ==
  (tree = EmptySourceTree /\ request # NoRequest /\ request.via = "analyze")
  => analysis.kind = "error"

\* C13: no class entity lists the class constructor among its methods; its
\* methods are the other method members of the class that pass the
\* includePrivate filter.
C13_ConstructorNotAMethod ==
  Analyzed
  => \A k \in 1..Len(analysis.entities) :
       analysis.entities[k].type = "class"
       => \A m \in 1..Len(analysis.entities[k].methods) :
            analysis.entities[k].methods[m].name # N_constructor

\* ===================================================================
\* SimpleMermaidMCPServer: the JSDOM rendering environment
\* ===================================================================
\* Tool calls are served concurrently: every handler is an async function and
\* another call runs whenever one is suspended at an await.
JsdomWindow(c) == [kind |-> "window", of |-> c]
JsdomDocument(c) == [kind |-> "document", of |-> c]
JsdomPurify(c) == [kind |-> "DOMPurify", of |-> c]

JsdomMethods == {"renderWithJSDOM", "validateWithJSDOM"}

\* renderWithJSDOM / validateWithJSDOM from the call to the await of
\* mermaid.render / mermaid.parse: a JSDOM of its own, the globals saved in
\* locals, the globals pointed at the new window
EnterJSDOM(c, method) ==
  /\ jsdom[c].pc = "idle"
  /\ jsdom' = [jsdom EXCEPT ![c] =
                 [pc |-> "awaiting", method |-> method,
                  originalWindow |-> globalScope.window,
                  originalDocument |-> globalScope.document,
                  closed |-> FALSE]]
  /\ globalScope' =
       [window |-> JsdomWindow(c),
        document |-> JsdomDocument(c),
        DOMPurify |-> IF method = "renderWithJSDOM" THEN JsdomPurify(c)
                      ELSE globalScope.DOMPurify]
  /\ UNCHANGED <<analyzerVars, toolVars, sseVars, mcpCall>>

\* the awaited promise has settled: the rest of the try block and the finally
\* block, which puts the saved values back and closes the call's window
LeaveJSDOM(c, settled) ==
  /\ jsdom[c].pc = "awaiting"
  /\ globalScope' =
       [window |-> IF jsdom[c].originalWindow # Undefined
                   THEN jsdom[c].originalWindow ELSE Undefined,
        document |-> IF jsdom[c].originalDocument # Undefined
                     THEN jsdom[c].originalDocument ELSE Undefined,
        DOMPurify |-> IF jsdom[c].method = "renderWithJSDOM" THEN Undefined
                      ELSE globalScope.DOMPurify]
  /\ jsdom' = [jsdom EXCEPT ![c] = [@ EXCEPT !.pc = "done", !.closed = TRUE]
                                   @@ [settled |-> settled]]
  /\ UNCHANGED <<analyzerVars, toolVars, sseVars, mcpCall>>

AnalyzerIdle ==
  tree = <<>> /\ request = NoRequest /\ analysis = NoAnalysis /\ calls = <<>>

InitJsdom ==
  /\ AnalyzerIdle /\ ToolIdle /\ SseIdle /\ McpIdle
  /\ globalScope = NoGlobals
  /\ jsdom = [c \in 1..MaxJsdomCalls |-> [pc |-> "idle"]]

NextJsdom ==
  \/ \E c \in 1..MaxJsdomCalls, method \in JsdomMethods : EnterJSDOM(c, method)
  \/ \E c \in 1..MaxJsdomCalls, settled \in {"fulfilled", "rejected"} :
       LeaveJSDOM(c, settled)

SpecJsdom == InitJsdom /\ [][NextJsdom]_vars

AllJsdomCallsDone == \A c \in 1..MaxJsdomCalls : jsdom[c].pc = "done"

\* C14: once every renderWithJSDOM / validateWithJSDOM call has completed,
\* global.window and global.document hold what they held before the first
\* call started (nothing), and never the window of a closed call.
C14_GlobalsRestored ==
  AllJsdomCallsDone
  => /\ globalScope.window = NoGlobals.window
     /\ globalScope.document = NoGlobals.document
     /\ ~(globalScope.window.kind = "window" /\ jsdom[globalScope.window.of].closed)

\* ===================================================================
\* SimpleMermaidMCPServer: the tools render_mermaid_to_svg and
\* validate_mermaid_syntax
\* ===================================================================
\* A string is the sequence of its characters. The messages and labels of
\* the source are Chinese texts; each is written here as one element with an
\* English gloss.
LowerCaseOf ==
  "A" :> "a" @@ "B" :> "b" @@ "C" :> "c" @@ "D" :> "d" @@ "E" :> "e" @@ "F" :> "f"
  @@ "G" :> "g" @@ "H" :> "h" @@ "I" :> "i" @@ "J" :> "j" @@ "K" :> "k" @@ "L" :> "l"
  @@ "M" :> "m" @@ "N" :> "n" @@ "O" :> "o" @@ "P" :> "p" @@ "Q" :> "q" @@ "R" :> "r"
  @@ "S" :> "s" @@ "T" :> "t" @@ "U" :> "u" @@ "V" :> "v" @@ "W" :> "w" @@ "X" :> "x"
  @@ "Y" :> "y" @@ "Z" :> "z"

\* String.prototype.toLowerCase
toLowerCase(text) ==
  SubSeq([i \in 1..Len(text) |->
            IF text[i] \in DOMAIN LowerCaseOf THEN LowerCaseOf[text[i]] ELSE text[i]],
         1, Len(text))

WhiteSpace == {" ", "\n", "\t", "\r"}
LineTerminators == {"\n", "\r"}

\* String.prototype.trim
trim(text) ==
  IF \A i \in 1..Len(text) : text[i] \in WhiteSpace THEN <<>>
  ELSE LET first == CHOOSE i \in 1..Len(text) :
                      text[i] \notin WhiteSpace /\ \A j \in 1..(i - 1) : text[j] \in WhiteSpace
           last == CHOOSE i \in 1..Len(text) :
                     /\ text[i] \notin WhiteSpace
                     /\ \A j \in (i + 1)..Len(text) : text[j] \in WhiteSpace
       IN  SubSeq(text, first, last)

\* word occurs in text at index i
StartsWithAt(text, i, word) ==
  /\ i + Len(word) - 1 <= Len(text)
  /\ \A k \in 1..Len(word) : text[i + k - 1] = word[k]

\* String.prototype.includes
includes(text, word) == \E i \in 1..(Len(text) + 1) : StartsWithAt(text, i, word)

\* /^word/m.test(text): under the m flag ^ matches at the start of the text
\* and after every line terminator
StartsALine(text, word) ==
  \E i \in 1..Len(text) :
    (i = 1 \/ text[i - 1] \in LineTerminators) /\ StartsWithAt(text, i, word)

K_graph == <<"g", "r", "a", "p", "h">>
K_flowchart == <<"f", "l", "o", "w", "c", "h", "a", "r", "t">>
K_sequenceDiagram == <<"s", "e", "q", "u", "e", "n", "c", "e", "D", "i", "a", "g", "r", "a", "m">>
K_classDiagram == <<"c", "l", "a", "s", "s", "D", "i", "a", "g", "r", "a", "m">>
K_gantt == <<"g", "a", "n", "t", "t">>
K_pie == <<"p", "i", "e">>
K_erDiagram == <<"e", "r", "D", "i", "a", "g", "r", "a", "m">>
K_journey == <<"j", "o", "u", "r", "n", "e", "y">>
K_gitgraph == <<"g", "i", "t", "g", "r", "a", "p", "h">>
K_mindmap == <<"m", "i", "n", "d", "m", "a", "p">>
K_timeline == <<"t", "i", "m", "e", "l", "i", "n", "e">>
K_requirementDiagram == <<"r", "e", "q", "u", "i", "r", "e", "m", "e", "n", "t", "D", "i", "a", "g", "r", "a", "m">>
K_stateDiagram == <<"s", "t", "a", "t", "e", "D", "i", "a", "g", "r", "a", "m">>
K_sequencediagram == toLowerCase(K_sequenceDiagram)
K_erdiagram == toLowerCase(K_erDiagram)
K_requirementdiagram == toLowerCase(K_requirementDiagram)
K_statediagram == toLowerCase(K_stateDiagram)

Directions == { <<"T", "D">>, <<"T", "B">>, <<"B", "T">>, <<"R", "L">>, <<"L", "R">> }

\* /^(graph|flowchart)\s+(TD|TB|BT|RL|LR)/.test(text): no m flag, so ^ is the
\* start of the text only
MatchesFlowchartHeader(text) ==
  \E word \in {K_graph, K_flowchart} :
    /\ StartsWithAt(text, 1, word)
    /\ \E j \in (Len(word) + 2)..Len(text) :
         /\ \A k \in (Len(word) + 1)..(j - 1) : text[k] \in WhiteSpace
         /\ \E d \in Directions : StartsWithAt(text, j, d)

\* the type labels: Flowchart is the source's "liu cheng tu", UnknownType its
\* "wei zhi lei xing", and so on
\* detectDiagramType: the patterns, in the order they are tried on the
\* lower-cased, trimmed code; an optional group at the end of a pattern ((\s+title)?,
\* (-v2)?) does not change whether it matches
DiagramPatterns(code) ==
  << <<MatchesFlowchartHeader(code), "Flowchart">>,
     <<StartsALine(code, K_sequencediagram), "SequenceDiagram">>,
     <<StartsALine(code, K_classDiagram), "ClassDiagram">>,
     <<StartsALine(code, K_gantt), "Gantt">>,
     <<StartsALine(code, K_pie), "Pie">>,
     <<StartsALine(code, K_erdiagram), "ERDiagram">>,
     <<StartsALine(code, K_journey), "Journey">>,
     <<StartsALine(code, K_gitgraph), "GitGraph">>,
     <<StartsALine(code, K_mindmap), "Mindmap">>,
     <<StartsALine(code, K_timeline), "Timeline">>,
     <<StartsALine(code, K_requirementdiagram), "RequirementDiagram">>,
     <<StartsALine(code, K_statediagram), "StateDiagram">> >>

detectDiagramType(mermaidCode) ==
  LET patterns == DiagramPatterns(trim(toLowerCase(mermaidCode)))
      hits == {i \in 1..Len(patterns) : patterns[i][1]}
  IN  IF hits = {} THEN "UnknownType"
      ELSE patterns[CHOOSE i \in hits : \A k \in hits : i <= k][2]

\* ------------------------------------------------------------ utils.ts
MaxCodeLength == 50000
MaxTitleLength == 100
MaxFileNameLength == 50

UnsafeWords == { <<"<", "s", "c", "r", "i", "p", "t">>, <<"j", "a", "v", "a", "s", "c", "r", "i", "p", "t", ":">>, <<"d", "a", "t", "a", ":">>, <<"v", "b", "s", "c", "r", "i", "p", "t", ":">> }
\* /<|>|&|"|'|`/; the backquote is written U0060
TitleSpecialChars == {"<", ">", "&", "\"", "'", "U0060"}
AllowedThemes == <<"default", "dark", "forest", "neutral">>

Message(gloss) == [message |-> gloss]

\* validateInput: the first complaint or null; the arguments are strings, so
\* the typeof tests pass. /<script|javascript:|data:|vbscript:/i ignores case.
validateInput(params) ==
  LET codeError ==
        IF "mermaidCode" \notin DOMAIN params THEN Null
        ELSE IF Len(params.mermaidCode) = 0 THEN Message("mermaidCode must not be empty")
        ELSE IF Len(params.mermaidCode) > MaxCodeLength
             THEN Message("mermaidCode must not be longer than 50000 characters")
        ELSE IF \E word \in UnsafeWords : includes(toLowerCase(params.mermaidCode), word)
             THEN Message("mermaidCode contains unsafe content")
        ELSE Null
      titleError ==
        IF "title" \notin DOMAIN params THEN Null
        ELSE IF Len(params.title) > MaxTitleLength
             THEN Message("title must not be longer than 100 characters")
        ELSE IF \E i \in 1..Len(params.title) : params.title[i] \in TitleSpecialChars
             THEN Message("title contains special characters that are not allowed")
        ELSE Null
      themeError ==
        IF "theme" \notin DOMAIN params THEN Null
        ELSE IF ~Includes(AllowedThemes, params.theme)
             THEN Message("theme must be one of: default, dark, forest, neutral")
        ELSE Null
  IN  IF ~IsNull(codeError) THEN codeError
      ELSE IF ~IsNull(titleError) THEN titleError
      ELSE themeError

\* the characters sanitizeFileName keeps: letters, digits, CJK ideographs
\* (written U56FE, U8868), underscore, hyphen
CjkChars == {"U56FE", "U8868"}
FileNameChars == WordChars \cup CjkChars \cup {"-"}

\* .replace(/_{2,}/g, '_'): of every run of underscores the first is kept
CollapseUnderscores(text) ==
  LET Kept(i) == ~(text[i] = "_" /\ i > 1 /\ text[i - 1] = "_")
      kept == SelectSeq([i \in 1..Len(text) |-> i], Kept)
  IN  [k \in 1..Len(kept) |-> text[kept[k]]]

sanitizeFileName(fileName) ==
  LET replaced == [i \in 1..Len(fileName) |->
                     IF fileName[i] \in FileNameChars THEN fileName[i] ELSE "_"]
      collapsed == CollapseUnderscores(replaced)
  IN  SubSeq(collapsed, 1, IF Len(collapsed) < MaxFileNameLength
                           THEN Len(collapsed) ELSE MaxFileNameLength)

\* -------------------------------------------- SimpleMermaidMCPServer
\* A function that throws yields [thrown |-> TRUE, message]; one that returns
\* yields [thrown |-> FALSE, value]. A message is a sequence of text pieces.
Throw(message) == [thrown |-> TRUE, message |-> message]
Return(value) == [thrown |-> FALSE, value |-> value]

\* How an attempt in the browser or in JSDOM ends is decided outside the
\* server: the Mermaid parser accepts the code ("ok") or rejects it
\* ("parseError"), or the environment cannot be brought up ("unavailable").
AttemptOutcomes == {"ok", "parseError", "unavailable"}

AttemptMessage(outcome) ==
  IF outcome = "parseError" THEN <<"Parse error on line 2">> ELSE <<"environment unavailable">>

Started(op) == [op |-> op]

StaticKeywords ==
  <<K_graph, K_flowchart, K_sequenceDiagram, K_classDiagram, K_gantt, K_pie, K_erDiagram,
    K_journey, K_gitgraph, K_mindmap, K_timeline, K_requirementDiagram, K_stateDiagram>>

\* validateStaticFallback: passes when the trimmed code holds the name of a
\* diagram type anywhere, in any case
validateStaticFallback(mermaidCode) ==
  IF Len(mermaidCode) = 0
  THEN Throw(<<"code must not be empty and must be a string">>)
  ELSE LET trimmedCode == trim(mermaidCode)
           lowerCode == toLowerCase(trimmedCode)
       IN  IF Len(trimmedCode) = 0 THEN Throw(<<"code content must not be empty">>)
           ELSE IF \E k \in 1..Len(StaticKeywords) :
                     includes(lowerCode, toLowerCase(StaticKeywords[k]))
                THEN Return(Undefined)
                ELSE Throw(<<"unrecognised diagram type">>)

\* validateMermaidInIsolatedContext: Puppeteer, then JSDOM, then the static
\* check; [thrown, message | value, started]
validateMermaidInIsolatedContext(mermaidCode, env) ==
  IF env.puppeteer = "ok"
  THEN Return(Undefined) @@ [started |-> <<Started("validateWithPuppeteer")>>]
  ELSE IF env.jsdom = "ok"
  THEN Return(Undefined)
       @@ [started |-> <<Started("validateWithPuppeteer"), Started("validateWithJSDOM")>>]
  ELSE validateStaticFallback(mermaidCode)
       @@ [started |-> <<Started("validateWithPuppeteer"), Started("validateWithJSDOM"),
                         Started("validateStaticFallback")>>]

\* handleValidateMermaidSyntax: [thrown, message | value, effects]
handleValidateMermaidSyntax(params, env) ==
  LET validationError == validateInput([mermaidCode |-> params.mermaidCode])
  IN  IF ~IsNull(validationError)
      THEN Throw(<<"input validation failed: ", validationError.message>>)
           @@ [effects |-> <<>>]
      ELSE LET attempt == validateMermaidInIsolatedContext(params.mermaidCode, env)
           IN  IF attempt.thrown
               THEN Return([content |-> << <<"Mermaid syntax error: ">> \o attempt.message >>,
                            isError |-> TRUE])
                    @@ [effects |-> attempt.started]
               ELSE Return([content |->
                              << <<"Mermaid syntax validated; diagram type: ",
                                   detectDiagramType(params.mermaidCode)>> >>])
                    @@ [effects |-> attempt.started]

\* renderStaticFallback: an SVG that shows the code and the detected type
renderStaticFallback(mermaidCode, theme, now) ==
  [by |-> "static", code |-> mermaidCode, theme |-> theme,
   diagramType |-> detectDiagramType(mermaidCode), timestamp |-> now]

\* renderMermaidInIsolatedContext trying JSDOM before Puppeteer
renderMermaidInIsolatedContext_JsdomFirst(mermaidCode, theme, env, now) ==
  IF env.jsdom = "ok"
  THEN [svg |-> [by |-> "jsdom", code |-> mermaidCode, theme |-> theme],
        started |-> <<Started("renderWithJSDOM")>>]
  ELSE IF env.puppeteer = "ok"
  THEN [svg |-> [by |-> "puppeteer", code |-> mermaidCode, theme |-> theme],
        started |-> <<Started("renderWithJSDOM"), Started("renderWithPuppeteer")>>]
  ELSE [svg |-> renderStaticFallback(mermaidCode, theme, now),
        started |-> <<Started("renderWithJSDOM"), Started("renderWithPuppeteer"),
                      Started("renderStaticFallback")>>]

\* renderMermaidInIsolatedContext: never throws; [svg, started]
renderMermaidInIsolatedContext(mermaidCode, theme, env, now) ==
  IF env.puppeteer = "ok"
  THEN [svg |-> [by |-> "puppeteer", code |-> mermaidCode, theme |-> theme],
        started |-> <<Started("renderWithPuppeteer")>>]
  ELSE IF env.jsdom = "ok"
  THEN [svg |-> [by |-> "jsdom", code |-> mermaidCode, theme |-> theme],
        started |-> <<Started("renderWithPuppeteer"), Started("renderWithJSDOM")>>]
  ELSE [svg |-> renderStaticFallback(mermaidCode, theme, now),
        started |-> <<Started("renderWithPuppeteer"), Started("renderWithJSDOM"),
                      Started("renderStaticFallback")>>]

\* addTitleToSVG: a title element as first child of the svg element
addTitleToSVG(svg, title) == svg @@ [title |-> title]

\* the default title, 'Mermaid' and two ideographs
T_DefaultTitle == <<"M", "e", "r", "m", "a", "i", "d", "U56FE", "U8868">>

\* the path createTempSVGFile writes to
TempFilePath(title, now) ==
  <<"tmpdir/mermaid_">> \o sanitizeFileName(title) \o <<"_", Digit(now), ".svg">>

\* a destructuring default that replaces the argument even when it is given
Default_ArgumentIgnored(params, f, value) == value

Default(params, f, value) == IF f \in DOMAIN params THEN params[f] ELSE value

\* handleRenderMermaidToSVG with the validation moved behind the rendering
handleRenderMermaidToSVG_ValidateLast(params, env, now) ==
  LET mermaidCode == params.mermaidCode
      title == Default(params, "title", T_DefaultTitle)
      theme == Default(params, "theme", "default")
      validationError == validateInput([mermaidCode |-> mermaidCode, title |-> title,
                                        theme |-> theme])
      rendered == renderMermaidInIsolatedContext(mermaidCode, theme, env, now)
  IN  IF ~IsNull(validationError)
      THEN Throw(<<"input validation failed: ", validationError.message>>)
           @@ [effects |-> rendered.started]
      ELSE Return([content |-> << <<"Mermaid diagram rendered; diagram type: ",
                                    detectDiagramType(mermaidCode), "; theme: ", theme>> >>])
           @@ [effects |-> rendered.started]

\* handleRenderMermaidToSVG: [thrown, message | value, effects]
handleRenderMermaidToSVG(params, env, now) ==
  LET mermaidCode == params.mermaidCode
      title == Default(params, "title", T_DefaultTitle)
      theme == Default(params, "theme", "default")
      createTempFile == Default(params, "createTempFile", TRUE)
      validationError == validateInput([mermaidCode |-> mermaidCode, title |-> title,
                                        theme |-> theme])
  IN  IF ~IsNull(validationError)
      THEN Throw(<<"input validation failed: ", validationError.message>>)
           @@ [effects |-> <<>>]
      ELSE LET rendered == renderMermaidInIsolatedContext(mermaidCode, theme, env, now)
               svgWithTitle == addTitleToSVG(rendered.svg, title)
               tempFilePath == TempFilePath(title, now)
               summary == <<"Mermaid diagram rendered; diagram type: ",
                            detectDiagramType(mermaidCode), "; theme: ", theme>>
               svgText == <<"SVG content: ", svgWithTitle>>
           IN  IF ~createTempFile
               THEN Return([content |-> <<summary, svgText>>])
                    @@ [effects |-> rendered.started]
               ELSE IF env.fs = "ok"
               THEN Return([content |-> <<summary,
                                          <<"temporary SVG file created: ">> \o tempFilePath,
                                          svgText>>])
                    @@ [effects |-> rendered.started
                                    \o <<[op |-> "writeFile", path |-> tempFilePath,
                                          data |-> svgWithTitle]>>]
               ELSE Throw(<<"SVG rendering failed: ", "write failed">>)
                    @@ [effects |-> rendered.started \o <<Started("writeFile")>>]

\* the CallToolRequestSchema handler: dispatch on the tool name, and turn
\* whatever is thrown into an error response
CallToolReply(outcome) ==
  IF outcome.thrown
  THEN [content |-> << <<"error: ">> \o outcome.message >>, isError |-> TRUE]
  ELSE outcome.value

\* ------------------------------------------------ tool calls: inputs
M_graphTD == <<"g", "r", "a", "p", "h", " ", "T", "D", "\n", "A", "-", "-", ">", "B">>
M_flowchartLR ==
  <<"f", "l", "o", "w", "c", "h", "a", "r", "t", " ", "L", "R", "\n", "A", "-", "-", ">",
    "B">>
M_classDiagram ==
  <<"c", "l", "a", "s", "s", "D", "i", "a", "g", "r", "a", "m", "\n", "c", "l", "a", "s",
    "s", " ", "A">>
M_sequence ==
  <<"s", "e", "q", "u", "e", "n", "c", "e", "D", "i", "a", "g", "r", "a", "m", "\n", "A",
    "-", ">", ">", "B", ":", " ", "x">>
M_stateV2 ==
  <<" ", "s", "t", "a", "t", "e", "D", "i", "a", "g", "r", "a", "m", "-", "v", "2", "\n",
    "[", "*", "]", " ", "-", "-", ">", " ", "A">>
M_commentFirst ==
  <<"%", "%", " ", "x", "\n", "g", "r", "a", "p", "h", " ", "T", "D", "\n", "A", "-",
    "-", ">", "B">>
M_brokenGraph == <<"g", "r", "a", "p", "h", " ", "T", "D", "\n", "A", "-", "-", ">">>
M_prose == <<"h", "e", "l", "l", "o">>
M_blank == <<" ", "\n">>
M_script ==
  <<"g", "r", "a", "p", "h", " ", "T", "D", "\n", "A", "[", "<", "S", "C", "R", "I", "P",
    "T", ">", "]">>
M_dataUrl ==
  <<"g", "r", "a", "p", "h", " ", "T", "D", "\n", "A", "[", "d", "a", "t", "a", ":", "x",
    "]">>
M_empty == <<>>
M_overLimit == SubSeq([i \in 1..(MaxCodeLength + 1) |-> "a"], 1, MaxCodeLength + 1)
M_atLimit == SubSeq(M_overLimit, 1, MaxCodeLength)

MermaidCodes ==
  {M_graphTD, M_flowchartLR, M_classDiagram, M_sequence, M_stateV2, M_commentFirst,
    M_brokenGraph, M_prose, M_blank, M_script, M_dataUrl, M_empty, M_overLimit}

T_Zoo == <<"Z", "o", "o">>
T_aLessB == <<"a", "<", "b">>
T_spaced == <<"m", "y", " ", " ", "z", "o", "o">>
T_titleOverLimit == SubSeq([i \in 1..(MaxTitleLength + 1) |-> "t"], 1, MaxTitleLength + 1)
T_titleAtLimit == SubSeq(T_titleOverLimit, 1, MaxTitleLength)

\* the arguments of validate_mermaid_syntax: every code, and the longest code
\* that is accepted
ValidateParams == {[mermaidCode |-> code] : code \in MermaidCodes \cup {M_atLimit}}

\* the arguments of render_mermaid_to_svg: every code with the other
\* arguments omitted, and one code with every choice of the other arguments
RenderOptions ==
  {[mermaidCode |-> M_graphTD]}
  \cup {[mermaidCode |-> M_graphTD, title |-> t] :
          t \in {T_Zoo, T_aLessB, T_spaced, T_titleAtLimit, T_titleOverLimit}}
  \cup {[mermaidCode |-> M_graphTD, theme |-> th] : th \in {"dark", "neutral", "pink"}}
  \cup {[mermaidCode |-> M_script, title |-> T_aLessB, theme |-> "pink"],
         [mermaidCode |-> M_graphTD, title |-> T_Zoo, theme |-> "forest"]}

RenderParams ==
  {[mermaidCode |-> code] : code \in MermaidCodes}
  \cup RenderOptions
  \cup {o @@ [createTempFile |-> b] : o \in RenderOptions, b \in BOOLEAN}

ValidateEnvs == [puppeteer : AttemptOutcomes, jsdom : AttemptOutcomes]
RenderEnvs == [puppeteer : AttemptOutcomes, jsdom : AttemptOutcomes, fs : {"ok", "fails"}]

\* ------------------------------------------------ tool calls: actions
\* a validate_mermaid_syntax call, from dispatch to response
CallValidateMermaidSyntax(params, env) ==
  /\ toolCall = NoToolCall
  /\ toolCall' = [name |-> "validate_mermaid_syntax", params |-> params, env |-> env]
  /\ \E outcome \in {handleValidateMermaidSyntax(params, env)} :
       /\ toolEffects' = outcome.effects
       /\ toolReply' = CallToolReply(outcome)
  /\ UNCHANGED <<analyzerVars, jsdomVars, sseVars, mcpCall>>

\* a render_mermaid_to_svg call, from dispatch to response
CallRenderMermaidToSVG(params, env, now) ==
  /\ toolCall = NoToolCall
  /\ toolCall' = [name |-> "render_mermaid_to_svg", params |-> params,
                  env |-> env @@ [now |-> now]]
  /\ \E outcome \in {handleRenderMermaidToSVG(params, env, now)} :
       /\ toolEffects' = outcome.effects
       /\ toolReply' = CallToolReply(outcome)
  /\ UNCHANGED <<analyzerVars, jsdomVars, sseVars, mcpCall>>

\* any other tool name: the default branch of the switch throws
CallUnknownTool(name) ==
  /\ toolCall = NoToolCall
  /\ toolCall' = [name |-> name, params |-> [mermaidCode |-> M_graphTD],
                  env |-> [puppeteer |-> "ok", jsdom |-> "ok"]]
  /\ toolEffects' = <<>>
  /\ toolReply' = CallToolReply(Throw(<<"unknown tool: ", name>>))
  /\ UNCHANGED <<analyzerVars, jsdomVars, sseVars, mcpCall>>

\* the response has been sent
ToolReturn ==
  /\ toolCall # NoToolCall
  /\ toolCall' = NoToolCall /\ toolEffects' = <<>> /\ toolReply' = NoReply
  /\ UNCHANGED <<analyzerVars, jsdomVars, sseVars, mcpCall>>

InitTool == AnalyzerIdle /\ JsdomIdle /\ ToolIdle /\ SseIdle /\ McpIdle

NextTool ==
  \/ \E params \in ValidateParams, env \in ValidateEnvs :
       CallValidateMermaidSyntax(params, env)
  \/ \E params \in RenderParams, env \in RenderEnvs, now \in 0..MaxElapsed :
       CallRenderMermaidToSVG(params, env, now)
  \/ \E name \in {"render_svg", "beautify_svg"} : CallUnknownTool(name)
  \/ ToolReturn

SpecTool == InitTool /\ [][NextTool]_vars

\* C15: when the Mermaid parser rejects the code in the Puppeteer attempt and
\* in the JSDOM attempt, validate_mermaid_syntax answers with isError = TRUE
\* and never with the "syntax validated" message.
C15_ParserRejectionReported ==
  (/\ toolCall.name = "validate_mermaid_syntax"
   /\ toolCall.env.puppeteer = "parseError"
   /\ toolCall.env.jsdom = "parseError")
  => /\ Flag(toolReply, "isError")
     /\ toolReply.content[1][1] # "Mermaid syntax validated; diagram type: "

\* ===================================================================
\* SSETransport: connections, health check and shutdown
\* ===================================================================
NoResponse == [requested |-> FALSE]

Connections == 1..MaxConnections

Running == process.state = "running"

\* GET /sse: headers written, a transport made and added to the set, the
\* 'close' and 'error' listeners registered, server.connect awaited
SseRequest(c) ==
  /\ Running /\ httpServer.state = "listening"
  /\ ~responses[c].requested
  /\ responses' = [responses EXCEPT ![c] =
                     [requested |-> TRUE, connect |-> "pending", ended |-> FALSE,
                      errored |-> FALSE, closed |-> FALSE]]
  /\ activeConnections' = activeConnections \cup {c}
  /\ UNCHANGED <<httpServer, process, analyzerVars, jsdomVars, toolVars, mcpCall>>

\* server.connect(transport) resolved: the handler returns
ConnectResolves(c) ==
  /\ Running
  /\ responses[c].requested /\ responses[c].connect = "pending"
  /\ responses' = [responses EXCEPT ![c].connect = "resolved"]
  /\ UNCHANGED <<activeConnections, httpServer, process,
                 analyzerVars, jsdomVars, toolVars, mcpCall>>

\* server.connect(transport) rejected: the catch block deletes the transport
\* and ends the response
ConnectRejects(c) ==
  /\ Running
  /\ responses[c].requested /\ responses[c].connect = "pending"
  /\ responses' = [responses EXCEPT ![c].connect = "rejected", ![c].ended = TRUE]
  /\ activeConnections' = activeConnections \ {c}
  /\ UNCHANGED <<httpServer, process, analyzerVars, jsdomVars, toolVars, mcpCall>>

\* the response emits 'error'
ResponseError(c) ==
  /\ Running
  /\ responses[c].requested /\ ~responses[c].closed /\ ~responses[c].errored
  /\ responses' = [responses EXCEPT ![c].errored = TRUE]
  /\ activeConnections' = activeConnections \ {c}
  /\ UNCHANGED <<httpServer, process, analyzerVars, jsdomVars, toolVars, mcpCall>>

\* the response emits 'close': the client went away, or the response was ended
ResponseClose(c) ==
  /\ Running
  /\ responses[c].requested /\ ~responses[c].closed
  /\ responses' = [responses EXCEPT ![c].closed = TRUE]
  /\ activeConnections' = activeConnections \ {c}
  /\ UNCHANGED <<httpServer, process, analyzerVars, jsdomVars, toolVars, mcpCall>>

\* the transports whose response is still open and whose connect has not failed
OpenTransports ==
  {c \in Connections : /\ responses[c].requested
                       /\ ~responses[c].closed /\ ~responses[c].errored
                       /\ responses[c].connect # "rejected"}

\* GET /health: the size of the set is reported
Health ==
  /\ Running /\ httpServer.state = "listening"
  /\ httpServer' = [httpServer EXCEPT
                      !.health = [activeConnections |-> Cardinality(activeConnections),
                                  open |-> Cardinality(OpenTransports)]]
  /\ UNCHANGED <<responses, activeConnections, process,
                 analyzerVars, jsdomVars, toolVars, mcpCall>>

\* cleanup: every transport is deleted from the set; the responses are left
\* as they are
cleanup(connections) == connections \ {c \in Connections : c \in connections}

\* what cleanup does to the responses: nothing
cleanupResponses(rs, connections) == rs

\* SIGTERM or SIGINT: cleanup, then server.close with a callback that exits.
\* The server stops accepting connections; the callback runs once every
\* connection has ended.
Signal(sig) ==
  /\ Running /\ process.signals < MaxSignals
  /\ activeConnections' = cleanup(activeConnections)
  /\ responses' = cleanupResponses(responses, activeConnections)
  /\ httpServer' = [httpServer EXCEPT !.state = "closing"]
  /\ process' = [process EXCEPT !.signals = @ + 1, !.last = sig]
  /\ UNCHANGED <<analyzerVars, jsdomVars, toolVars, mcpCall>>

\* the server's 'close' event: no connection is left; process.exit(0)
ServerClosed ==
  /\ Running /\ httpServer.state = "closing"
  /\ \A c \in Connections : responses[c].requested => responses[c].closed
  /\ httpServer' = [httpServer EXCEPT !.state = "closed"]
  /\ process' = [process EXCEPT !.state = "exited"] @@ [code |-> 0]
  /\ UNCHANGED <<responses, activeConnections, analyzerVars, jsdomVars, toolVars, mcpCall>>

\* a response that was ended, or that failed, closes
CloseAfterEnd ==
  \E c \in Connections :
    /\ responses[c].requested /\ (responses[c].ended \/ responses[c].errored)
    /\ ResponseClose(c)

ConnectSettles == \E c \in Connections : ConnectResolves(c) \/ ConnectRejects(c)

InitSse ==
  /\ AnalyzerIdle /\ JsdomIdle /\ ToolIdle /\ McpIdle
  /\ responses = [c \in Connections |-> NoResponse]
  /\ activeConnections = {}
  /\ httpServer = [state |-> "listening", health |-> Undefined]
  /\ process = [state |-> "running", signals |-> 0, last |-> "none"]

NextSse ==
  \/ \E c \in Connections : SseRequest(c)
  \/ \E c \in Connections : ConnectResolves(c)
  \/ \E c \in Connections : ConnectRejects(c)
  \/ \E c \in Connections : ResponseError(c)
  \/ \E c \in Connections : ResponseClose(c)
  \/ Health
  \/ \E sig \in {"SIGTERM", "SIGINT"} : Signal(sig)
  \/ ServerClosed

\* The event loop runs every callback that is due: a settled connect, the
\* 'close' of an ended response, the server's 'close'. Clients are free to
\* keep their connection, and nobody has to send a signal.
SpecSse ==
  /\ InitSse /\ [][NextSse]_vars
  /\ WF_vars(ConnectSettles) /\ WF_vars(CloseAfterEnd) /\ WF_vars(ServerClosed)

\* C16: once SIGTERM or SIGINT has been received, the process eventually
\* exits with code 0, whatever connections were open.
C16_ShutdownExits ==
  (process.signals > 0) ~> (process.state = "exited" /\ process.code = 0)

\* C17: activeConnections is exactly the set of transports whose response has
\* emitted neither 'close' nor 'error' and whose connect has not failed, and
\* /health reports the number of those.
C17_ActiveConnectionsExact ==
  Running
  => /\ activeConnections = OpenTransports
     /\ httpServer.health # Undefined
          => httpServer.health.activeConnections = httpServer.health.open

\* ===================================================================
\* MermaidChartMCPServer: the generate_mermaid_diagram tool
\* ===================================================================
\* enum DiagramType
DiagramTypes ==
  {"classDiagram", "flowchart", "sequenceDiagram", "stateDiagram", "erDiagram",
   "gitgraph", "timeline"}

\* the diagram types the README of the server lists as supported
ListedDiagramTypes ==
  {"classDiagram", "flowchart", "sequenceDiagram", "stateDiagram", "erDiagram"}

\* MermaidGenerationOptionsSchema.parse: diagramType must be a DiagramType;
\* direction, includeTitle and theme get their defaults
ParseMermaidGenerationOptions(raw) ==
  IF ~("diagramType" \in DOMAIN raw /\ raw.diagramType \in DiagramTypes)
  THEN [ok |-> FALSE]
  ELSE [ok |-> TRUE,
        value |-> raw @@ [direction |-> T_TB, includeTitle |-> FALSE,
                          theme |-> "default"]]

\* { first, ...spread }: the keys of the spread object win
Spread(first, params, f) ==
  IF "options" \in DOMAIN params /\ f \in DOMAIN params.options
  THEN params.options[f] @@ first ELSE first

\* handleGenerateDiagram. params.code is the text whose syntax tree is t;
\* whether svgRenderer.render and svgBeautifier.beautify succeed is decided
\* by the browser they drive (env).
handleGenerateDiagram(params, t, env, elapsed) ==
  IF ~("code" \in DOMAIN params /\ "language" \in DOMAIN params)
  THEN Throw(<<"only code analysis is supported for now">>)
  ELSE
  LET analysisOptions ==
        ParseCodeAnalysisOptions(Spread([language |-> params.language], params, "analysis"))
      generationOptions ==
        ParseMermaidGenerationOptions(
          Spread(IF "diagramType" \in DOMAIN params
                 THEN [diagramType |-> params.diagramType] ELSE <<>>,
                 params, "generation"))
  IN  IF ~analysisOptions.ok THEN Throw(<<"ZodError">>)
      ELSE IF ~generationOptions.ok THEN Throw(<<"ZodError">>)
      ELSE IF Default(params, "diagramType", "undefined") # "classDiagram"
      THEN Throw(<<"diagram type not supported yet: ",
                   Default(params, "diagramType", "undefined")>>)
      ELSE
      LET analysisResult == analyze(t, analysisOptions.value, elapsed)
          mermaidResult == generate(analysisResult, generationOptions.value, elapsed)
      IN  IF mermaidResult.kind = "error"
          THEN Throw(<<"class diagram generation failed">>)
          ELSE IF Default(params, "renderSVG", TRUE) # FALSE /\ env.render = "fails"
          THEN Throw(<<"SVG rendering failed">>)
          ELSE IF /\ Default(params, "renderSVG", TRUE) # FALSE
                  /\ "beautificationStyle" \in DOMAIN params
                  /\ env.beautify = "fails"
          THEN Throw(<<"SVG beautification failed">>)
          ELSE Return([content |->
                 << [type |-> "text",
                     text |-> [literal |-> "generated the diagram",
                               diagramType |-> params.diagramType,
                               mermaidCode |-> mermaidResult.mermaidCode,
                               totalLines |-> analysisResult.metadata.totalLines,
                               nodeCount |-> mermaidResult.metadata.nodeCount,
                               edgeCount |-> mermaidResult.metadata.edgeCount,
                               generationTime |-> mermaidResult.metadata.generationTime]] >>])

\* the CallToolRequestSchema handler of MermaidChartMCPServer
McpCallToolReply(outcome) ==
  IF outcome.thrown
  THEN [content |-> << [type |-> "text",
                        text |-> [literal |-> "error", message |-> outcome.message]] >>,
        isError |-> TRUE]
  ELSE outcome.value

\* ------------------------------------------------ tool calls: inputs
OptionalField(f, values) == {<<>>} \cup {[g \in {f} |-> v] : v \in values}

GenerateDiagramParams ==
  { input @@ type @@ render @@ style @@ options :
      input \in {[code |-> "source text", language |-> "typescript"],
                 [code |-> "source text"],
                 [document |-> "text", language |-> "typescript"]},
      type \in OptionalField("diagramType", DiagramTypes \cup {"pie"}),
      render \in OptionalField("renderSVG", {FALSE}),
      style \in OptionalField("beautificationStyle", {"sketchy"}),
      options \in OptionalField("options",
                                {[generation |-> [direction |-> T_LR]],
                                 [analysis |-> [includePrivate |-> FALSE]]}) }

McpEnvs == [render : {"ok", "fails"}, beautify : {"ok", "fails"}]

\* ------------------------------------------------ tool calls: actions
\* a generate_mermaid_diagram call, from dispatch to response
CallGenerateDiagram(params, env, elapsed) ==
  /\ mcpCall = NoToolCall
  /\ \E outcome \in {handleGenerateDiagram(params, tree, env, elapsed)} :
       mcpCall' = [name |-> "generate_mermaid_diagram", arguments |-> params,
                   env |-> env, reply |-> McpCallToolReply(outcome)]
  /\ UNCHANGED <<analyzerVars, jsdomVars, toolVars, sseVars>>

\* a name the switch does not know: the default branch throws
CallUnknownMcpTool(name) ==
  /\ mcpCall = NoToolCall
  /\ mcpCall' = [name |-> name, arguments |-> <<>>,
                 env |-> [render |-> "ok", beautify |-> "ok"],
                 reply |-> McpCallToolReply(Throw(<<"unknown tool: ", name>>))]
  /\ UNCHANGED <<analyzerVars, jsdomVars, toolVars, sseVars>>

\* the response has been sent
McpReturn ==
  /\ mcpCall # NoToolCall
  /\ mcpCall' = NoToolCall
  /\ UNCHANGED <<analyzerVars, jsdomVars, toolVars, sseVars>>

InitMcp ==
  /\ tree \in ScenarioTrees
  /\ request = NoRequest /\ analysis = NoAnalysis /\ calls = <<>>
  /\ JsdomIdle /\ ToolIdle /\ SseIdle /\ McpIdle

NextMcp ==
  \/ \E params \in GenerateDiagramParams, env \in McpEnvs, elapsed \in 0..MaxElapsed :
       CallGenerateDiagram(params, env, elapsed)
  \/ \E name \in {"validate_mermaid_syntax", "render_mermaid_to_svg"} :
       CallUnknownMcpTool(name)
  \/ McpReturn

SpecMcp == InitMcp /\ [][NextMcp]_vars

\* the call was given code and a language, and the browser did not fail it
AnalyzableCall ==
  /\ mcpCall.name = "generate_mermaid_diagram"
  /\ {"code", "language"} \subseteq DOMAIN mcpCall.arguments
  /\ \/ Default(mcpCall.arguments, "renderSVG", TRUE) = FALSE
     \/ mcpCall.env = [render |-> "ok", beautify |-> "ok"]

\* C18: a generate_mermaid_diagram call with code, a language and one of the
\* diagram types the README lists gets a response that is not an error and
\* carries Mermaid code.
C18_ListedTypesGenerated ==
  (/\ AnalyzableCall
   /\ Default(mcpCall.arguments, "diagramType", "undefined") \in ListedDiagramTypes)
  => /\ ~Flag(mcpCall.reply, "isError")
     /\ "mermaidCode" \in DOMAIN mcpCall.reply.content[1].text

\* ===================================================================
\* Properties of SimpleMermaidMCPServer's tool calls (specification SpecTool)
\* ===================================================================
\* the call was answered with a message that names the detected diagram type
TypeReported ==
  /\ toolCall.name \in {"validate_mermaid_syntax", "render_mermaid_to_svg"}
  /\ ~Flag(toolReply, "isError")

ReportedType == toolReply.content[1][2]

\* C19: the type reported for a code is Flowchart when the code begins with
\* graph or flowchart and a direction, ClassDiagram when classDiagram is the
\* first listed keyword to start a line, SequenceDiagram when sequenceDiagram
\* starts a line, and UnknownType only when no listed keyword starts a line.
C19_KeywordsRecognised ==
  TypeReported
  => LET code == trim(toolCall.params.mermaidCode)
     IN  /\ MatchesFlowchartHeader(code) => ReportedType = "Flowchart"
         /\ (~MatchesFlowchartHeader(code) /\ StartsALine(code, K_sequenceDiagram))
              => ReportedType = "SequenceDiagram"
         /\ (/\ ~MatchesFlowchartHeader(code)
             /\ ~StartsALine(code, K_sequenceDiagram)
             /\ StartsALine(code, K_classDiagram))
              => ReportedType = "ClassDiagram"
         /\ ReportedType = "UnknownType"
              => \A k \in 1..Len(StaticKeywords) : ~StartsALine(code, StaticKeywords[k])

\* the arguments of the call are among those the documentation says are
\* refused: the code is empty, too long or has unsafe content; the title given
\* to render_mermaid_to_svg is too long or has a special character; its theme
\* is not one of the four
RejectedArguments ==
  /\ toolCall.name \in {"validate_mermaid_syntax", "render_mermaid_to_svg"}
  /\ LET params == toolCall.params
         code == params.mermaidCode
     IN  \/ Len(code) = 0
         \/ Len(code) > MaxCodeLength
         \/ \E word \in UnsafeWords : includes(toLowerCase(code), word)
         \/ /\ toolCall.name = "render_mermaid_to_svg"
            /\ \/ /\ "title" \in DOMAIN params
                  /\ \/ Len(params.title) > MaxTitleLength
                     \/ \E i \in 1..Len(params.title) : params.title[i] \in TitleSpecialChars
               \/ /\ "theme" \in DOMAIN params
                  /\ params.theme \notin {"default", "dark", "forest", "neutral"}

\* C20: a call whose arguments are refused starts no renderer, writes no
\* file, and is answered with isError = TRUE.
C20_ValidationPrecedesWork ==
  RejectedArguments => toolEffects = <<>> /\ Flag(toolReply, "isError")

\* a render call with a refused argument was answered although the browser
\* would have rendered the code
C20_Witness ==
  /\ RejectedArguments
  /\ toolCall.name = "render_mermaid_to_svg"
  /\ toolCall.env.puppeteer = "ok" /\ toolCall.env.fs = "ok"
  /\ "createTempFile" \notin DOMAIN toolCall.params
  /\ Len(toolCall.params.mermaidCode) > 0
  /\ toolEffects = <<>> /\ Flag(toolReply, "isError")

\* a render_mermaid_to_svg call whose arguments passed the validation
RenderAccepted == toolCall.name = "render_mermaid_to_svg" /\ ~RejectedArguments

\* createTempFile is true, or omitted
TempFileWanted ==
  "createTempFile" \notin DOMAIN toolCall.params \/ toolCall.params.createTempFile

\* the writes that fs.writeFile completed
FilesWritten ==
  {i \in 1..Len(toolEffects) :
     toolEffects[i].op = "writeFile" /\ "path" \in DOMAIN toolEffects[i]}

IsStatusText(text) == text[1] = "Mermaid diagram rendered; diagram type: "
IsSvgText(text) == text[1] = "SVG content: "

ImmediateParameters(t, n) ==
  LET p == childForFieldName(t, n, "parameters")
  IN  IF p = 0 THEN <<>>
      ELSE MapSeq(LAMBDA c : [name |-> t[c].name.text,
                              optional |-> t[c].type = "optional_parameter"],
                  SelectSeq(Children(t, p),
                            LAMBDA c : /\ t[c].type \in {"required_parameter",
                                                          "optional_parameter"}
                                       /\ t[c].name.present))

NameAndOptional(parameters) ==
  MapSeq(LAMBDA q : [name |-> q.name, optional |-> q.optional], parameters)

\* C22: the parameters of a function entity, and of every method of a class
\* or interface entity, are the parameter nodes that are children of the
\* declaration's parameters field, one entry each, in order.
C22_ImmediateParametersOnly ==
  (Analyzed /\ Truthy(request.options, "includePrivate"))
  => \A k \in 1..Len(analysis.entities) :
       LET e == analysis.entities[k]
           d == e.position.line
       IN  /\ e.type = "function"
                => NameAndOptional(e.methods[1].parameters) = ImmediateParameters(tree, d)
           /\ e.type \in {"class", "interface"}
                => LET ms == MemberNodes(tree, d, MethodKinds(tree[d].type))
                   IN  /\ Len(e.methods) = Len(ms)
                       /\ \A j \in 1..Len(ms) :
                            NameAndOptional(e.methods[j].parameters)
                              = ImmediateParameters(tree, ms[j])

\* the declarations of the tree, in the order the walk meets them
DeclarationNodes(t) == SelectSeq(Ids(t), LAMBDA i : t[i].type \in DeclarationKinds)

DirectMemberNodes(t, d, kinds) ==
  LET b == childForFieldName(t, d, "body")
  IN  IF b = 0 THEN <<>>
      ELSE SelectSeq(Ids(t), LAMBDA c : /\ t[c].parent = b
                                        /\ t[c].type \in kinds
                                        /\ t[c].name.present)

\* C25: the properties and methods of a class or interface entity are the
\* members its own body declares; a member of a class nested in the body or in
\* a method is listed with the nested class only.
C25_MembersOfOwnBodyOnly ==
  (Analyzed /\ Truthy(request.options, "includePrivate"))
  => LET es == ClassLikeEntities(analysis.entities)
         ds == ClassLikeNodes(tree)
     IN  /\ Len(es) = Len(ds)
         /\ \A k \in 1..Len(es) :
              /\ NameAndVisibility(es[k].properties)
                   = DeclaredMembers(tree,
                                     DirectMemberNodes(tree, ds[k],
                                                       PropertyKinds(tree[ds[k]].type)),
                                     TRUE)
              /\ NameAndVisibility(es[k].methods)
                   = DeclaredMembers(tree,
                                     DirectMemberNodes(tree, ds[k],
                                                       MethodKinds(tree[ds[k]].type)),
                                     TRUE)

\* the renderers the call started, in the order it started them
RenderersStarted ==
  SelectSeq(toolEffects,
            LAMBDA e : e.op \in {"renderWithPuppeteer", "renderWithJSDOM",
                                 "renderStaticFallback"})

\* Puppeteer first; JSDOM only after Puppeteer failed; the static fallback
\* only after both failed
RenderersInOrder ==
  RenderersStarted
    = IF toolCall.env.puppeteer = "ok" THEN <<Started("renderWithPuppeteer")>>
      ELSE IF toolCall.env.jsdom = "ok"
      THEN <<Started("renderWithPuppeteer"), Started("renderWithJSDOM")>>
      ELSE <<Started("renderWithPuppeteer"), Started("renderWithJSDOM"),
             Started("renderStaticFallback")>>

\* the renderer that is the first to succeed
FirstToSucceed ==
  IF toolCall.env.puppeteer = "ok" THEN "puppeteer"
  ELSE IF toolCall.env.jsdom = "ok" THEN "jsdom" ELSE "static"

\* the response shows the SVG of the first renderer that succeeded, for the
\* code and the theme of the call
FirstSvgReturned ==
  LET svg == toolReply.content[Len(toolReply.content)][2]
  IN  /\ IsSvgText(toolReply.content[Len(toolReply.content)])
      /\ svg.by = FirstToSucceed
      /\ svg.code = toolCall.params.mermaidCode

\* C23 as stated: the renderers run in the order Puppeteer, JSDOM, static
\* fallback, each only after the one before it failed; the SVG of the first
\* that succeeds is returned; once validation has passed the call reports
\* success.
C23_FallbackChainAlwaysSucceeds ==
  RenderAccepted
  => /\ RenderersInOrder
     /\ ~Flag(toolReply, "isError")
     /\ FirstSvgReturned

\* C23: as above, except that the call reports an error when it has to write
\* the temp file and the write fails; the renderers never make it fail.
C23_FallbackChainNeverFails ==
  RenderAccepted
  => /\ RenderersInOrder
     /\ Flag(toolReply, "isError") <=> (TempFileWanted /\ toolCall.env.fs # "ok")
     /\ ~Flag(toolReply, "isError") => FirstSvgReturned /\ IsStatusText(toolReply.content[1])

\* both real renderers rejected the code and the call reported success with
\* the static SVG
C23_Witness ==
  /\ RenderAccepted
  /\ toolCall.env.puppeteer = "parseError" /\ toolCall.env.jsdom = "parseError"
  /\ toolCall.params.mermaidCode = M_brokenGraph
  /\ ~Flag(toolReply, "isError")
  /\ toolReply.content[Len(toolReply.content)][2].by = "static"
  /\ Len(RenderersStarted) = 3

\* ===================================================================
\* Properties of the JSDOM rendering environment (specification SpecJsdom)
\* ===================================================================
\* C26: a renderWithJSDOM / validateWithJSDOM call that has set the globals
\* and has not reached its finally block, whether suspended at its await or
\* about to resume from it, finds its own window and document in
\* global.window and global.document.
C26_GlobalsAreTheCallsOwn ==
  \A c \in 1..MaxJsdomCalls :
    jsdom[c].pc = "awaiting"
    => /\ globalScope.window = JsdomWindow(c)
       /\ globalScope.document = JsdomDocument(c)

====
